---------------------------- MODULE Spec2Model ----------------------------
(***************************************************************************)
(* Model of the mii-backend chat pipeline: the rule-based InputAnalyzer,   *)
(* the SemanticRiskClassifier and its timeout race, the escalate-only      *)
(* merge of analyzeWithSemantic, the ResponseValidator, the                *)
(* ConversationStore and ChatOrchestrator.handleUserMessage running on a   *)
(* JavaScript event loop (one macrotask at a time, promise continuations   *)
(* in a FIFO microtask queue).                                             *)
(*                                                                         *)
(* Texts are strings; String.prototype.includes, toLowerCase and the       *)
(* regular expressions of the source are computed character by character.  *)
(***************************************************************************)
EXTENDS Integers, Sequences, FiniteSets, TLC

(***************************************************************************)
(* Bounds of the model.                                                    *)
(***************************************************************************)
\* Number of fragments an analysed text is put together from.
MaxFragments == 2
\* Number of handleUserMessage calls in one behaviour.
MaxTurns == 2
\* Number of appends to one conversation between two clears.
MaxAppends == 31

(***************************************************************************)
(* Strings.                                                                *)
(***************************************************************************)
CharAt(s, i) == SubSeq(s, i, i)

UpperChars == "ABCDEFGHIJKLMNOPQRSTUVWXYZ"
LowerChars == "abcdefghijklmnopqrstuvwxyz"
DigitChars == "0123456789_"

\* Position of the one-character string c in the string s, 0 when absent.
IndexOfChar(s, c) ==
  IF \E i \in 1..Len(s) : CharAt(s, i) = c
  THEN CHOOSE i \in 1..Len(s) : CharAt(s, i) = c
  ELSE 0

LowerChar(c) ==
  LET i == IndexOfChar(UpperChars, c)
  IN  IF i = 0 THEN c ELSE CharAt(LowerChars, i)

RECURSIVE ToLowerRange(_, _, _)
ToLowerRange(s, i, j) ==
  IF i > j THEN ""
  ELSE IF i = j THEN LowerChar(CharAt(s, i))
  ELSE LET m == (i + j) \div 2
       IN  ToLowerRange(s, i, m) \o ToLowerRange(s, m + 1, j)

\* String.prototype.toLowerCase on the characters the model uses.
toLowerCase(s) == ToLowerRange(s, 1, Len(s))

\* String.prototype.includes: p occurs in s as a substring.
includes(s, p) ==
  \E i \in 1..(Len(s) - Len(p) + 1) : SubSeq(s, i, i + Len(p) - 1) = p

\* String.prototype.slice(0, n) for n >= 0.
sliceString(s, n) == IF Len(s) <= n THEN s ELSE SubSeq(s, 1, n)

\* Array.prototype.slice(0, n) for n >= 0.
sliceFirst(a, n) == IF Len(a) <= n THEN a ELSE SubSeq(a, 1, n)

\* Array.prototype.slice(-limit) for an integer limit >= 0: slice(-0) is
\* slice(0), the whole array.
sliceLast(a, limit) ==
  IF limit = 0 \/ Len(a) <= limit THEN a
  ELSE SubSeq(a, Len(a) - limit + 1, Len(a))

(***************************************************************************)
(* Regular expressions: a pattern is a tree; MatchEnds gives the set of    *)
(* positions at which a match that starts at one of the positions S can    *)
(* end, so RegExp.prototype.test is "some match exists".                   *)
(***************************************************************************)
Lit(s)  == [k |-> "lit", s |-> s]
Alt(a)  == [k |-> "alt", a |-> a]
Cat(a)  == [k |-> "cat", a |-> a]
Opt(r)  == [k |-> "opt", r |-> r]
Spaces  == [k |-> "spaces"]      \* \s+
WordB   == [k |-> "wordb"]       \* \b
AnyStar == [k |-> "anystar"]     \* .*

IsWordChar(c) ==
  \/ IndexOfChar(LowerChars, c) # 0
  \/ IndexOfChar(UpperChars, c) # 0
  \/ IndexOfChar(DigitChars, c) # 0

IsSpaceChar(c) == c = " " \/ c = "\n" \/ c = "\t"

WordAt(t, i) == i >= 1 /\ i <= Len(t) /\ IsWordChar(CharAt(t, i))

RECURSIVE MatchEnds(_, _, _)
RECURSIVE MatchCat(_, _, _, _)
MatchEnds(r, t, S) ==
  CASE r.k = "lit" ->
         { i + Len(r.s) : i \in { j \in S : /\ j + Len(r.s) - 1 <= Len(t)
                                            /\ SubSeq(t, j, j + Len(r.s) - 1) = r.s } }
    [] r.k = "alt" -> UNION { MatchEnds(r.a[n], t, S) : n \in 1..Len(r.a) }
    [] r.k = "cat" -> MatchCat(r.a, 1, t, S)
    [] r.k = "opt" -> S \cup MatchEnds(r.r, t, S)
    [] r.k = "spaces" ->
         { e \in 2..(Len(t) + 1) :
             \E i \in S : i < e /\ \A j \in i..(e - 1) : IsSpaceChar(CharAt(t, j)) }
    [] r.k = "wordb" -> { i \in S : WordAt(t, i - 1) # WordAt(t, i) }
    [] r.k = "anystar" ->
         { e \in 1..(Len(t) + 1) :
             \E i \in S : i <= e /\ \A j \in i..(e - 1) : CharAt(t, j) # "\n" }

MatchCat(a, n, t, S) ==
  IF n > Len(a) \/ S = {} THEN S
  ELSE MatchCat(a, n + 1, t, MatchEnds(a[n], t, S))

\* RegExp.prototype.test for a pattern without the g flag.
test(r, t) == MatchEnds(r, t, 1..(Len(t) + 1)) # {}

Words(a) == Alt([n \in 1..Len(a) |-> Lit(a[n])])
\* Literal words separated by \s+.
Phrase(a) == Cat([n \in 1..(2 * Len(a) - 1) |->
                    IF n % 2 = 1 THEN Lit(a[(n + 1) \div 2]) ELSE Spaces])

(***************************************************************************)
(* InputAnalyzer: the tables.                                              *)
(***************************************************************************)
RiskLevels == {"LOW", "MEDIUM", "HIGH"}
Intents    == {"MENTAL_HEALTH", "GENERAL", "UNKNOWN"}
Modes      == {"NORMAL", "SUPPORTIVE", "CRISIS"}

\* Layer 1.
EXPLICIT_CRISIS_KEYWORDS ==
  << "suicide", "suicidal", "kill myself", "end my life", "take my life",
     "want to die", "wanna die", "ready to die", "planning to die",
     "self-harm", "self harm", "hurt myself", "cutting myself",
     "harming myself",
     "no reason to live", "better off dead", "rather be dead",
     "wish i was dead", "wish i were dead",
     "end it all", "ending it all", "not worth living", "can't go on",
     "cannot go on",
     "overdose", "jump off", "hang myself" >>

\* Layer 2.
CRISIS_PATTERNS ==
  << Cat(<< WordB, Words(<<"want", "wanna", "gonna", "going", "ready">>), Spaces,
            Opt(Cat(<<Lit("to"), Spaces>>)),
            Alt(<< Lit("die"), Phrase(<<"end", "it">>), Lit("disappear"),
                   Phrase(<<"give", "up", "on", "life">>) >>) >>),
     Cat(<< WordB, Words(<<"kill", "hurt", "harm", "cut", "injure">>), Spaces,
            Alt(<< Lit("myself"), Lit("me"), Phrase(<<"my", "self">>) >>) >>),
     Cat(<< WordB,
            Alt(<< Cat(<<Lit("don"), Opt(Lit("'")), Lit("t")>>),
                   Phrase(<<"do", "not">>), Lit("dont") >>),
            Spaces, Lit("want"), Spaces, Lit("to"), Spaces,
            Alt(<< Lit("live"), Phrase(<<"be", "here">>), Lit("exist"),
                   Phrase(<<"wake", "up">>), Phrase(<<"be", "alive">>) >>) >>),
     Cat(<< WordB, Alt(<< Phrase(<<"better", "off">>), Phrase(<<"rather", "be">>) >>),
            Spaces,
            Alt(<< Lit("dead"), Lit("gone"), Phrase(<<"not", "here">>) >>) >>),
     Cat(<< WordB, Words(<<"no", "without", "lost">>), Spaces,
            Words(<<"reason", "point", "purpose", "will">>), Spaces,
            Alt(<< Phrase(<<"to", "live">>), Phrase(<<"in", "living">>),
                   Phrase(<<"to", "go", "on">>), Lit("anymore") >>) >>),
     Cat(<< WordB, Lit("can"), Opt(Lit("'")), Lit("t"), Spaces,
            Alt(<< Phrase(<<"go", "on">>), Phrase(<<"do", "this">>),
                   Phrase(<<"take", "it">>), Lit("handle"), Lit("continue"),
                   Phrase(<<"keep", "going">>) >>),
            Opt(Cat(<<Spaces, Lit("anymore")>>)) >>),
     Cat(<< WordB, Words(<<"end", "ending", "finish">>), Spaces,
            Alt(<< Phrase(<<"my", "life">>), Phrase(<<"it", "all">>),
                   Lit("everything"), Lit("this") >>) >>),
     Cat(<< WordB, Words(<<"tired", "sick", "done">>), Spaces,
            Words(<<"of", "with">>), Spaces, Words(<<"living", "life">>) >>),
     Cat(<< WordB, Lit("no"), Spaces, Lit("one"), Spaces,
            Words(<<"would", "will", "gonna">>), Spaces,
            Words(<<"care", "miss", "notice">>) >>),
     Cat(<< WordB, Words(<<"world", "everyone", "family", "they">>), AnyStar,
            Words(<<"better", "easier">>), Spaces,
            Opt(Cat(<<Lit("off"), Spaces>>)), Lit("without"), Spaces, Lit("me") >>),
     Cat(<< WordB, Lit("want"), Spaces, Lit("to"), Spaces,
            Alt(<< Lit("disappear"), Lit("vanish"), Phrase(<<"not", "exist">>),
                   Phrase(<<"cease", "to", "exist">>) >>) >>) >>

\* The one regular expression among the soft signals, and its .source.
TiredOfEverything ==
  Cat(<< WordB, Words(<<"tired", "sick", "done">>), Spaces, Words(<<"of", "with">>),
         Spaces, Alt(<< Lit("everything"), Phrase(<<"all", "of", "this">>) >>) >>)

TiredOfEverythingSource ==
  "\\b(tired|sick|done)\\s+(of|with)\\s+(everything|all\\s+of\\s+this)"

StrSignal(p, w) == [isRegExp |-> FALSE, pattern |-> p, weight |-> w]

\* Layer 3.
SOFT_CRISIS_SIGNALS ==
  << StrSignal("feel dead", 4), StrSignal("dead inside", 4),
     StrSignal("feel nothing", 3), StrSignal("feel empty", 3),
     StrSignal("feel numb", 3), StrSignal("completely numb", 4),
     StrSignal("no hope", 4), StrSignal("lost hope", 4),
     StrSignal("hopeless", 3), StrSignal("what's the point", 4),
     StrSignal("what is the point", 4), StrSignal("whats the point", 4),
     StrSignal("no point", 3), StrSignal("pointless", 2),
     StrSignal("why bother", 3), StrSignal("why try", 3),
     StrSignal("give up", 3), StrSignal("giving up", 3),
     StrSignal("can't do this anymore", 4), StrSignal("too much to handle", 3),
     StrSignal("can't take it", 4),
     StrSignal("all alone", 3), StrSignal("no one cares", 4),
     StrSignal("nobody cares", 4), StrSignal("no one understands", 2),
     StrSignal("burden", 3), StrSignal("i'm a burden", 5),
     StrSignal("burden to everyone", 5),
     StrSignal("escape", 2), StrSignal("want out", 3), StrSignal("way out", 3),
     StrSignal("only way out", 5),
     StrSignal("goodbye", 2), StrSignal("final goodbye", 5),
     StrSignal("last message", 4), StrSignal("won't be here", 4),
     [isRegExp |-> TRUE, pattern |-> TiredOfEverythingSource, weight |-> 3],
     StrSignal("so tired of everything", 3), StrSignal("sick of everything", 3),
     StrSignal("done with everything", 3) >>

SOFT_SIGNAL_CRISIS_THRESHOLD == 8
SOFT_SIGNAL_SUPPORTIVE_THRESHOLD == 4

\* Layer 4.
MENTAL_HEALTH_KEYWORDS ==
  << "anxious", "anxiety", "depressed", "depression", "stressed", "overwhelmed",
     "lonely", "hopeless", "sad", "grief", "grieving", "panic", "panic attack",
     "worried", "struggling", "mental health", "therapy", "therapist",
     "counseling", "counselor", "burnout", "burnt out", "exhausted",
     "breaking down", "falling apart", "crying", "can't sleep", "insomnia",
     "nightmares", "trauma", "ptsd", "flashback", "triggered", "self-esteem",
     "hate myself", "worthless", "failure", "ashamed", "guilt", "regret" >>

(***************************************************************************)
(* InputAnalyzer.analyze.                                                  *)
(***************************************************************************)
\* A keyword loop: some entry of the list occurs in the lowered text.
anyKeyword(list, lowerText) == \E n \in 1..Len(list) : includes(lowerText, list[n])

anyPattern(list, lowerText) == \E n \in 1..Len(list) : test(list[n], lowerText)

signalMatches(signal, lowerText) ==
  IF signal.isRegExp THEN test(TiredOfEverything, lowerText)
  ELSE includes(lowerText, signal.pattern)

\* The layer-3 loop leaving at its first matching signal.
RECURSIVE softSignalLoopFirstMatch(_, _, _, _)
softSignalLoopFirstMatch(n, lowerText, score, matched) ==
  IF n > Len(SOFT_CRISIS_SIGNALS) THEN [score |-> score, matched |-> matched]
  ELSE LET signal == SOFT_CRISIS_SIGNALS[n]
       IN  IF signalMatches(signal, lowerText)
           THEN [score |-> score + signal.weight,
                 matched |-> Append(matched, signal.pattern)]
           ELSE softSignalLoopFirstMatch(n + 1, lowerText, score, matched)

\* The layer-3 loop over SOFT_CRISIS_SIGNALS from entry n on, carrying the
\* running score and the matched patterns.
RECURSIVE softSignalLoop(_, _, _, _)
softSignalLoop(n, lowerText, score, matched) ==
  IF n > Len(SOFT_CRISIS_SIGNALS) THEN [score |-> score, matched |-> matched]
  ELSE LET signal == SOFT_CRISIS_SIGNALS[n]
       IN  IF signalMatches(signal, lowerText)
           THEN softSignalLoop(n + 1, lowerText, score + signal.weight,
                               Append(matched, signal.pattern))
           ELSE softSignalLoop(n + 1, lowerText, score, matched)

InputAnalysis(intent, risk, flags, mode, reason) ==
  [intent |-> intent, riskLevel |-> risk, safetyFlags |-> flags,
   suggestedMode |-> mode, modeReason |-> reason]

\* The layers without the fourth.
analyzeLayersNoTopical(lowerText) ==
  IF anyKeyword(EXPLICIT_CRISIS_KEYWORDS, lowerText)
  THEN InputAnalysis("MENTAL_HEALTH", "HIGH", <<"CRISIS_KEYWORD_MATCH">>,
                     "CRISIS", "EXPLICIT_CRISIS_KEYWORD")
  ELSE IF anyPattern(CRISIS_PATTERNS, lowerText)
  THEN InputAnalysis("MENTAL_HEALTH", "HIGH", <<"CRISIS_PATTERN_MATCH">>,
                     "CRISIS", "CRISIS_PATTERN_MATCH")
  ELSE LET soft == softSignalLoop(1, lowerText, 0, <<>>)
       IN  IF soft.score >= SOFT_SIGNAL_CRISIS_THRESHOLD
           THEN InputAnalysis("MENTAL_HEALTH", "HIGH",
                              <<"SOFT_SIGNALS_ELEVATED">> \o sliceFirst(soft.matched, 3),
                              "CRISIS", "SOFT_SIGNALS_CRISIS_THRESHOLD")
           ELSE IF soft.score >= SOFT_SIGNAL_SUPPORTIVE_THRESHOLD
           THEN InputAnalysis("MENTAL_HEALTH", "MEDIUM", sliceFirst(soft.matched, 3),
                              "SUPPORTIVE", "SOFT_SIGNALS_ELEVATED")
           ELSE InputAnalysis("GENERAL", "LOW", <<>>, "NORMAL", "DEFAULT")

\* The four layers in the order the method runs them.
analyzeLayers(lowerText) ==
  IF anyKeyword(EXPLICIT_CRISIS_KEYWORDS, lowerText)
  THEN InputAnalysis("MENTAL_HEALTH", "HIGH", <<"CRISIS_KEYWORD_MATCH">>,
                     "CRISIS", "EXPLICIT_CRISIS_KEYWORD")
  ELSE IF anyPattern(CRISIS_PATTERNS, lowerText)
  THEN InputAnalysis("MENTAL_HEALTH", "HIGH", <<"CRISIS_PATTERN_MATCH">>,
                     "CRISIS", "CRISIS_PATTERN_MATCH")
  ELSE LET soft == softSignalLoop(1, lowerText, 0, <<>>)
       IN  IF soft.score >= SOFT_SIGNAL_CRISIS_THRESHOLD
           THEN InputAnalysis("MENTAL_HEALTH", "HIGH",
                              <<"SOFT_SIGNALS_ELEVATED">> \o sliceFirst(soft.matched, 3),
                              "CRISIS", "SOFT_SIGNALS_CRISIS_THRESHOLD")
           ELSE IF soft.score >= SOFT_SIGNAL_SUPPORTIVE_THRESHOLD
           THEN InputAnalysis("MENTAL_HEALTH", "MEDIUM", sliceFirst(soft.matched, 3),
                              "SUPPORTIVE", "SOFT_SIGNALS_ELEVATED")
           ELSE IF anyKeyword(MENTAL_HEALTH_KEYWORDS, lowerText)
           THEN InputAnalysis("MENTAL_HEALTH", "MEDIUM", <<>>, "SUPPORTIVE",
                              "MENTAL_HEALTH_KEYWORD")
           ELSE InputAnalysis("GENERAL", "LOW", <<>>, "NORMAL", "DEFAULT")

\* analyze without the toLowerCase of its first line.
analyzeCaseSensitive(text) == analyzeLayers(text)

analyze(text) == analyzeLayers(toLowerCase(text))

(***************************************************************************)
(* InputAnalyzer: the merge helpers.                                       *)
(***************************************************************************)
riskLevelToNumber(risk) ==
  CASE risk = "LOW" -> 0
    [] risk = "MEDIUM" -> 1
    [] risk = "HIGH" -> 2

\* getMaxRiskLevel without the comparison: the second level always wins.
getMaxRiskLevelLastWins(a, b) == b

getMaxRiskLevel(a, b) ==
  IF riskLevelToNumber(a) >= riskLevelToNumber(b) THEN a ELSE b

getModeForRisk(risk) ==
  CASE risk = "HIGH" -> "CRISIS"
    [] risk = "MEDIUM" -> "SUPPORTIVE"
    [] risk = "LOW" -> "NORMAL"

(***************************************************************************)
(* ResponseValidator.                                                      *)
(***************************************************************************)
DIAGNOSIS_PATTERNS ==
  << "you have depression", "you are depressed", "you have anxiety",
     "you are bipolar", "you have ptsd", "you are schizophrenic", "you have ocd",
     "you suffer from", "you are clinically", "i diagnose", "my diagnosis" >>

MEDICATION_PATTERNS ==
  << "take xanax", "take prozac", "take zoloft", "take antidepressants",
     "take medication", "you should take", "i recommend taking", "try taking",
     "prescription for", "mg of", "dosage of" >>

GUARANTEE_PATTERNS ==
  << "you will be fine", "you will get better", "i promise", "i guarantee",
     "everything will be okay", "nothing bad will happen", "you will definitely" >>

SAFE_FALLBACK_NORMAL ==
  "I'm here to listen and support you. Would you like to share more about what's on your mind?"

\* A supportive fallback that makes a promise.
SAFE_FALLBACK_SUPPORTIVE_Promising ==
  "I hear you, and I want you to know that your feelings are valid. "
  \o "I promise that everything will be okay."

SAFE_FALLBACK_SUPPORTIVE ==
  "I hear you, and I want you to know that your feelings are valid. "
  \o "I'm here to listen without judgment. Would you like to tell me more about what you're experiencing?"

\* The source has an em dash where this string has "--".
SAFE_FALLBACK_CRISIS ==
  "I'm really glad you reached out. What you're feeling matters, and you don't have to face this alone. "
  \o "Please consider reaching out to someone you trust--a friend, family member, or counselor. "
  \o "If you're in immediate danger, please contact your local emergency services or a crisis helpline. "
  \o "I'm here to listen."

\* The pattern a for-loop with break stops at: the first of the list that
\* occurs in the text.
firstPattern(list, lowerText) ==
  list[CHOOSE n \in 1..Len(list) :
         /\ includes(lowerText, list[n])
         /\ \A m \in 1..(n - 1) : ~includes(lowerText, list[m])]

\* The switch on mode.
sanitizedTextFor(mode) ==
  CASE mode = "CRISIS" -> SAFE_FALLBACK_CRISIS
    [] mode = "SUPPORTIVE" -> SAFE_FALLBACK_SUPPORTIVE
    [] OTHER -> SAFE_FALLBACK_NORMAL

Rejected(mode, flag, reason) ==
  [isSafe |-> FALSE, safetyFlags |-> <<flag>>,
   sanitizedText |-> sanitizedTextFor(mode), reason |-> reason]

\* The three families, each checked whatever the others found.
validateLoweredEveryFamily(mode, lowerText) ==
  LET d == anyKeyword(DIAGNOSIS_PATTERNS, lowerText)
      m == anyKeyword(MEDICATION_PATTERNS, lowerText)
      g == anyKeyword(GUARANTEE_PATTERNS, lowerText)
  IN  IF d \/ m \/ g
      THEN [isSafe |-> FALSE,
            safetyFlags |-> (IF d THEN << "DIAGNOSIS_DETECTED" >> ELSE << >>)
                            \o (IF m THEN << "MEDICATION_ADVICE_DETECTED" >> ELSE << >>)
                            \o (IF g THEN << "ABSOLUTE_GUARANTEE_DETECTED" >> ELSE << >>),
            sanitizedText |-> sanitizedTextFor(mode),
            reason |-> "Response contained an unsafe pattern"]
      ELSE [isSafe |-> TRUE, safetyFlags |-> <<>>]

\* The three families, each checked only while isSafe is still true.
validateLowered(mode, lowerText) ==
  IF anyKeyword(DIAGNOSIS_PATTERNS, lowerText)
  THEN Rejected(mode, "DIAGNOSIS_DETECTED",
                "Response contained diagnosis pattern: \""
                  \o firstPattern(DIAGNOSIS_PATTERNS, lowerText) \o "\"")
  ELSE IF anyKeyword(MEDICATION_PATTERNS, lowerText)
  THEN Rejected(mode, "MEDICATION_ADVICE_DETECTED",
                "Response contained medication advice pattern: \""
                  \o firstPattern(MEDICATION_PATTERNS, lowerText) \o "\"")
  ELSE IF anyKeyword(GUARANTEE_PATTERNS, lowerText)
  THEN Rejected(mode, "ABSOLUTE_GUARANTEE_DETECTED",
                "Response contained guarantee pattern: \""
                  \o firstPattern(GUARANTEE_PATTERNS, lowerText) \o "\"")
  ELSE [isSafe |-> TRUE, safetyFlags |-> <<>>]

validate(mode, userText, assistantText) ==
  validateLowered(mode, toLowerCase(assistantText))

(***************************************************************************)
(* PromptBuilder.build: the system prompt for the mode, the recent         *)
(* messages, then the current user message. The prompt texts are named,    *)
(* not spelled out.                                                        *)
(***************************************************************************)
systemPromptFor(mode) ==
  CASE mode = "SUPPORTIVE" -> "BASE_SYSTEM_PROMPT" \o "SUPPORTIVE_MODE_ADDITION"
    [] mode = "CRISIS" -> "BASE_SYSTEM_PROMPT" \o "CRISIS_MODE_ADDITION"
    [] OTHER -> "BASE_SYSTEM_PROMPT"

build(mode, recentMessages, userMessage) ==
  << [role |-> "system", content |-> systemPromptFor(mode)] >>
  \o [n \in 1..Len(recentMessages) |->
        [role |-> recentMessages[n].role, content |-> recentMessages[n].content]]
  \o << [role |-> "user", content |-> userMessage] >>

(***************************************************************************)
(* LLMClient.                                                              *)
(***************************************************************************)
\* ensureInitialized throws when the provider is openai and no key is set;
\* initialized then stays false, so every later call throws again.
ensureInitializedThrows(e) == e.LLM_PROVIDER = "openai" /\ ~e.OPENAI_API_KEY

API_KEY_ERROR ==
  "OPENAI_API_KEY environment variable is required when LLM_PROVIDER=openai"

\* The content of the last message with role user, "" standing for none.
lastUserContent(messages) ==
  LET users == { n \in 1..Len(messages) : messages[n].role = "user" }
  IN  IF users = {} THEN ""
      ELSE messages[CHOOSE n \in users : \A m \in users : m <= n].content

\* generateStub: the three canned responses around the user context.
stubResponses(messages) ==
  LET found == \E n \in 1..Len(messages) : messages[n].role = "user"
      userContext == IF found THEN sliceString(lastUserContent(messages), 50)
                     ELSE "your thoughts"
  IN  << "I hear you when you share about " \o userContext
           \o ". It takes courage to open up. How are you feeling right now?",
         "Thank you for sharing that with me. I'm here to listen. Would you like to tell me more about what's on your mind?",
         "I appreciate you trusting me with this. It sounds like you're going through something meaningful. How can I support you?" >>

\* generateOpenAI, its last two lines: completion.choices[0]?.message?.content || ''.
\* A completion is [choices |-> a sequence of messages]; a message is
\* [content |-> text], or a record without content for a null content.
completionText(completion) ==
  IF /\ Len(completion.choices) >= 1
     /\ "content" \in DOMAIN completion.choices[1]
     /\ completion.choices[1].content # ""
  THEN completion.choices[1].content
  ELSE ""

getProvider(e) == e.LLM_PROVIDER

(***************************************************************************)
(* ConversationStore: the store is a Map from conversation id to array.    *)
(***************************************************************************)
MAX_MESSAGES_PER_CONVERSATION == 30

\* this.store.get(conversationId) || []
storeGet(st, conversationId) ==
  IF conversationId \in DOMAIN st THEN st[conversationId] ELSE <<>>

getRecent(st, conversationId, limit) == sliceLast(storeGet(st, conversationId), limit)

\* push, then splice(0, length - MAX) when over the cap, then set.
\* append that never drops the oldest messages.
appendUncapped(st, conversationId, message) ==
  LET pushed == Append(storeGet(st, conversationId), message)
  IN  [c \in DOMAIN st \cup {conversationId} |->
         IF c = conversationId THEN pushed ELSE st[c]]

append(st, conversationId, message) ==
  LET pushed == Append(storeGet(st, conversationId), message)
      capped == IF Len(pushed) > MAX_MESSAGES_PER_CONVERSATION
                THEN SubSeq(pushed, Len(pushed) - MAX_MESSAGES_PER_CONVERSATION + 1,
                            Len(pushed))
                ELSE pushed
  IN  [c \in DOMAIN st \cup {conversationId} |->
         IF c = conversationId THEN capped ELSE st[c]]

\* clear(conversationId?): delete one key, or all of them.
clearOne(st, conversationId) == [c \in DOMAIN st \ {conversationId} |-> st[c]]
clearAll(st) == [c \in {} |-> <<>>]

(***************************************************************************)
(* ChatOrchestrator: constants and the inputs of the model.                *)
(***************************************************************************)
PROMPT_VERSION == "v1.0"
RECENT_MESSAGES_LIMIT == 20

CRISIS_SAFE_MESSAGE ==
  "I'm really sorry you're feeling this way. You don't have to go through this alone. "
  \o "If you're in immediate danger or might act on these thoughts, please contact your local emergency number right now. "
  \o "If you can, reach out to someone you trust or a local crisis hotline. "
  \o "If you tell me what country you're in, I can help you find the right support options."

ConversationIds == {"c1", "c2"}

\* The user messages sent to handleUserMessage.
UserMessages ==
  { "I want to KILL MYSELF",
    "I feel hopeless and want to give up",
    "hello, i promise i am fine" }

\* What the chat completion request can come back with.
Completions ==
  { [choices |-> << [content |-> "That sounds really hard. I'm here with you."] >>],
    [choices |-> << [content |-> "It sounds like you have depression; you should take Prozac."] >>],
    [choices |-> << [content |-> "I PROMISE you will get better."] >>],
    [choices |-> << [refusal |-> "content_filter"] >>] }

RequestErrors == { "Connection error." }

\* process.env as the program reads it.
\* The key is read only when the provider is openai.
Environments ==
  { e \in [LLM_PROVIDER : {"stub", "openai"}, OPENAI_API_KEY : BOOLEAN,
            SEMANTIC_CLASSIFIER_ENABLED : BOOLEAN] :
      e.LLM_PROVIDER = "stub" => ~e.OPENAI_API_KEY }

Runs == 1..MaxTurns

\* The value of a local that is not assigned yet.
Unset == << >>

VARIABLES
  env,          \* process.env, fixed when the process starts
  store,        \* ConversationStore.store
  run,          \* per handleUserMessage call: where it is suspended, its locals
  microtasks,   \* the promise job queue: the calls whose await has settled
  callerActive, \* the synchronous code that issues calls is still running
  calls,        \* per call: how often it invoked generate and classify
  completed,    \* the calls in the order in which they returned or threw
  sem,          \* one call of analyzeWithSemantic or classify
  val,          \* one direct call of ResponseValidator.validate, then a second
  recent,       \* the last direct call of ConversationStore.getRecent
  log           \* per conversation: every message appended since the last clear

chatVars == << store, run, microtasks, callerActive, calls, completed >>
directVars == << val, recent, log >>
vars == << env, store, run, microtasks, callerActive, calls, completed, sem,
          val, recent, log >>

IdleRun ==
  [pc |-> "idle", hops |-> 0, conversationId |-> "", userMessage |-> "",
   analysis |-> Unset, recentMessages |-> Unset, prompt |-> Unset,
   settled |-> "none", llmResponse |-> Unset, completion |-> Unset,
   validation |-> Unset, assistantMessage |-> "", output |-> Unset, error |-> ""]

ChatMessage(role, content, r) == [role |-> role, content |-> content, turn |-> r]

\* The run at the head of the job queue resumes.
Resumes(r, pc) ==
  /\ microtasks # << >>
  /\ Head(microtasks) = r
  /\ run[r].hops = 0
  /\ run[r].pc = pc

\* The resumed run reaches its next await of an already settled promise:
\* the continuation is queued behind the jobs already there.
Requeue(r) == microtasks' = Append(Tail(microtasks), r)

\* The branch on the mode with the literal misspelt.
isCrisisPathMisspelt(mode) == mode = "crisis"

\* The branch of handleUserMessage on the mode.
isCrisisPath(mode) == mode = "CRISIS"

(***************************************************************************)
(* ChatOrchestrator.handleUserMessage, one action per await.               *)
(***************************************************************************)
\* A caller invokes handleUserMessage: the method runs to its first await,
\* of InputAnalyzer.analyze. Calls issued by the same synchronous code (or a
\* new macrotask, when the job queue is empty) can follow each other. The
\* calls are numbered in the order in which they are made.
Call(r, conversationId, userMessage) ==
  /\ run[r].pc = "idle"
  /\ \A q \in 1..(r - 1) : run[q].pc # "idle"
  /\ microtasks = << >> \/ callerActive
  /\ run' = [run EXCEPT ![r] =
       [IdleRun EXCEPT !.pc = "await_analyze",
                       !.conversationId = conversationId,
                       !.userMessage = userMessage,
                       !.analysis = analyze(userMessage)]]
  /\ microtasks' = Append(microtasks, r)
  /\ callerActive' = TRUE
  /\ UNCHANGED << env, store, calls, completed, sem, directVars >>

\* A promise that is resolved with another promise settles two jobs later.
PromiseHop(r) ==
  /\ microtasks # << >>
  /\ Head(microtasks) = r
  /\ run[r].hops > 0
  /\ run' = [run EXCEPT ![r].hops = @ - 1]
  /\ Requeue(r)
  /\ callerActive' = FALSE
  /\ UNCHANGED << env, store, calls, completed, sem, directVars >>

\* CRISIS path with the user message left out of the history.
CrisisAppendUserSkipped(r) ==
  /\ Resumes(r, "await_analyze")
  /\ isCrisisPath(run[r].analysis.suggestedMode)
  /\ run' = [run EXCEPT ![r].pc = "await_crisis_append_user",
                        ![r].assistantMessage = CRISIS_SAFE_MESSAGE]
  /\ Requeue(r)
  /\ callerActive' = FALSE
  /\ UNCHANGED << env, store, calls, completed, sem, directVars >>

\* CRISIS path: the user message is appended.
CrisisAppendUser(r) ==
  /\ Resumes(r, "await_analyze")
  /\ isCrisisPath(run[r].analysis.suggestedMode)
  /\ store' = append(store, run[r].conversationId,
                     ChatMessage("user", run[r].userMessage, r))
  /\ run' = [run EXCEPT ![r].pc = "await_crisis_append_user",
                        ![r].assistantMessage = CRISIS_SAFE_MESSAGE]
  /\ Requeue(r)
  /\ callerActive' = FALSE
  /\ UNCHANGED << env, calls, completed, sem, directVars >>

CrisisAppendAssistant(r) ==
  /\ Resumes(r, "await_crisis_append_user")
  /\ store' = append(store, run[r].conversationId,
                     ChatMessage("assistant", run[r].assistantMessage, r))
  /\ run' = [run EXCEPT ![r].pc = "await_crisis_append_assistant"]
  /\ Requeue(r)
  /\ callerActive' = FALSE
  /\ UNCHANGED << env, calls, completed, sem, directVars >>

CrisisReturn(r) ==
  /\ Resumes(r, "await_crisis_append_assistant")
  /\ run' = [run EXCEPT ![r].pc = "returned",
                        ![r].output =
                          [assistantMessage |-> run[r].assistantMessage,
                           mode |-> "CRISIS",
                           safetyFlags |-> run[r].analysis.safetyFlags,
                           promptVersion |-> PROMPT_VERSION,
                           llmProvider |-> "none",
                           modeReason |-> run[r].analysis.modeReason]]
  /\ microtasks' = Tail(microtasks)
  /\ completed' = Append(completed, r)
  /\ callerActive' = FALSE
  /\ UNCHANGED << env, store, calls, sem, directVars >>

\* NORMAL/SUPPORTIVE path, step 2: the recent history is read.
GetRecent(r) ==
  /\ Resumes(r, "await_analyze")
  /\ ~isCrisisPath(run[r].analysis.suggestedMode)
  /\ run' = [run EXCEPT ![r].pc = "await_getRecent",
                        ![r].recentMessages =
                          getRecent(store, run[r].conversationId, RECENT_MESSAGES_LIMIT)]
  /\ Requeue(r)
  /\ callerActive' = FALSE
  /\ UNCHANGED << env, store, calls, completed, sem, directVars >>

\* Step 3.
BuildPrompt(r) ==
  /\ Resumes(r, "await_getRecent")
  /\ run' = [run EXCEPT ![r].pc = "await_build",
                        ![r].prompt = build(run[r].analysis.suggestedMode,
                                            run[r].recentMessages, run[r].userMessage)]
  /\ Requeue(r)
  /\ callerActive' = FALSE
  /\ UNCHANGED << env, store, calls, completed, sem, directVars >>

\* Step 4, LLMClient.generate is called and ensureInitialized throws: the
\* promise of generate is rejected.
GenerateThrows(r) ==
  /\ Resumes(r, "await_build")
  /\ ensureInitializedThrows(env)
  /\ run' = [run EXCEPT ![r].pc = "await_generate",
                        ![r].settled = "rejected",
                        ![r].error = API_KEY_ERROR]
  /\ calls' = [calls EXCEPT ![r].generate = @ + 1]
  /\ Requeue(r)
  /\ callerActive' = FALSE
  /\ UNCHANGED << env, store, completed, sem, directVars >>

\* Step 4 with the stub provider: generateStub picks one of its responses;
\* generate returns that promise, so its own promise settles two jobs later.
GenerateStub(r) ==
  /\ Resumes(r, "await_build")
  /\ ~ensureInitializedThrows(env)
  /\ env.LLM_PROVIDER # "openai"
  /\ \E n \in 1..3 :
       run' = [run EXCEPT ![r].pc = "await_generate",
                          ![r].hops = 2,
                          ![r].settled = "fulfilled",
                          ![r].llmResponse = [text |-> stubResponses(run[r].prompt)[n]]]
  /\ calls' = [calls EXCEPT ![r].generate = @ + 1]
  /\ Requeue(r)
  /\ callerActive' = FALSE
  /\ UNCHANGED << env, store, completed, sem, directVars >>

\* Step 4 with the openai provider: the request is sent; the run waits for
\* the network and leaves the job queue.
GenerateOpenAI(r) ==
  /\ Resumes(r, "await_build")
  /\ ~ensureInitializedThrows(env)
  /\ env.LLM_PROVIDER = "openai"
  /\ run' = [run EXCEPT ![r].pc = "await_generate", ![r].settled = "pending"]
  /\ calls' = [calls EXCEPT ![r].generate = @ + 1]
  /\ microtasks' = Tail(microtasks)
  /\ callerActive' = FALSE
  /\ UNCHANGED << env, store, completed, sem, directVars >>

\* A macrotask: the completion arrives and generateOpenAI returns its text.
CompletionArrives(r, completion) ==
  /\ microtasks = << >>
  /\ run[r].pc = "await_generate"
  /\ run[r].settled = "pending"
  /\ run' = [run EXCEPT ![r].settled = "fulfilled",
                        ![r].hops = 2,
                        ![r].completion = completion,
                        ![r].llmResponse = [text |-> completionText(completion)]]
  /\ microtasks' = << r >>
  /\ callerActive' = FALSE
  /\ UNCHANGED << env, store, calls, completed, sem, directVars >>

\* A macrotask: the request fails and generateOpenAI throws.
RequestFails(r, message) ==
  /\ microtasks = << >>
  /\ run[r].pc = "await_generate"
  /\ run[r].settled = "pending"
  /\ run' = [run EXCEPT ![r].settled = "rejected",
                        ![r].hops = 2,
                        ![r].error = message]
  /\ microtasks' = << r >>
  /\ callerActive' = FALSE
  /\ UNCHANGED << env, store, calls, completed, sem, directVars >>

\* handleUserMessage with a catch around generate that goes on with an empty
\* text.
GenerateRejectedMasked(r) ==
  /\ Resumes(r, "await_generate")
  /\ run[r].settled = "rejected"
  /\ run' = [run EXCEPT ![r].settled = "fulfilled", ![r].llmResponse = [text |-> ""]]
  /\ Requeue(r)
  /\ callerActive' = FALSE
  /\ UNCHANGED << env, store, calls, completed, sem, directVars >>

\* The await of generate throws and the call goes back to step 4.
GenerateRejectedRetried(r) ==
  /\ Resumes(r, "await_generate")
  /\ run[r].settled = "rejected"
  /\ run' = [run EXCEPT ![r].pc = "await_build", ![r].settled = "none",
                        ![r].error = ""]
  /\ Requeue(r)
  /\ callerActive' = FALSE
  /\ UNCHANGED << env, store, calls, completed, sem, directVars >>

\* The await of generate throws: handleUserMessage has no catch and rejects.
GenerateRejected(r) ==
  /\ Resumes(r, "await_generate")
  /\ run[r].settled = "rejected"
  /\ run' = [run EXCEPT ![r].pc = "threw"]
  /\ microtasks' = Tail(microtasks)
  /\ completed' = Append(completed, r)
  /\ callerActive' = FALSE
  /\ UNCHANGED << env, store, calls, sem, directVars >>

\* Step 5: the response is validated.
Validate(r) ==
  /\ Resumes(r, "await_generate")
  /\ run[r].settled = "fulfilled"
  /\ run' = [run EXCEPT ![r].pc = "await_validate",
                        ![r].validation =
                          validate(run[r].analysis.suggestedMode, run[r].userMessage,
                                   run[r].llmResponse.text)]
  /\ Requeue(r)
  /\ callerActive' = FALSE
  /\ UNCHANGED << env, store, calls, completed, sem, directVars >>

\* The assistant message chosen without looking at the validation.
chooseAssistantMessageUnchecked(validation, text) == text

\* validation.isSafe ? llmResponse.text : (validation.sanitizedText || llmResponse.text)
chooseAssistantMessage(validation, text) ==
  IF validation.isSafe THEN text
  ELSE IF "sanitizedText" \in DOMAIN validation /\ validation.sanitizedText # ""
  THEN validation.sanitizedText
  ELSE text

\* Step 6: the assistant message is chosen and the user message appended.
AppendUser(r) ==
  /\ Resumes(r, "await_validate")
  /\ store' = append(store, run[r].conversationId,
                     ChatMessage("user", run[r].userMessage, r))
  /\ run' = [run EXCEPT ![r].pc = "await_append_user",
                        ![r].assistantMessage =
                          chooseAssistantMessage(run[r].validation, run[r].llmResponse.text)]
  /\ Requeue(r)
  /\ callerActive' = FALSE
  /\ UNCHANGED << env, calls, completed, sem, directVars >>

AppendAssistant(r) ==
  /\ Resumes(r, "await_append_user")
  /\ store' = append(store, run[r].conversationId,
                     ChatMessage("assistant", run[r].assistantMessage, r))
  /\ run' = [run EXCEPT ![r].pc = "await_append_assistant"]
  /\ Requeue(r)
  /\ callerActive' = FALSE
  /\ UNCHANGED << env, calls, completed, sem, directVars >>

\* Step 7 and the return.
Return(r) ==
  /\ Resumes(r, "await_append_assistant")
  /\ run' = [run EXCEPT ![r].pc = "returned",
                        ![r].output =
                          [assistantMessage |-> run[r].assistantMessage,
                           mode |-> run[r].analysis.suggestedMode,
                           safetyFlags |-> run[r].analysis.safetyFlags
                                             \o run[r].validation.safetyFlags,
                           promptVersion |-> PROMPT_VERSION,
                           llmProvider |-> getProvider(env),
                           modeReason |-> run[r].analysis.modeReason]]
  /\ microtasks' = Tail(microtasks)
  /\ completed' = Append(completed, r)
  /\ callerActive' = FALSE
  /\ UNCHANGED << env, store, calls, sem, directVars >>

(***************************************************************************)
(* SemanticRiskClassifier: the pure parts.                                 *)
(***************************************************************************)
getSemanticEnabled(e) == e.SEMANTIC_CLASSIFIER_ENABLED

\* A fallback that fails open, to the lowest level.
getConservativeFallbackFailOpen(flag) ==
  [riskLevel |-> "LOW", intent |-> "UNKNOWN", suggestedMode |-> "NORMAL",
   safetyFlags |-> << flag >>,
   rationale |-> "Fallback classification due to processing error"]

getConservativeFallback(flag) ==
  [riskLevel |-> "MEDIUM", intent |-> "UNKNOWN", suggestedMode |-> "SUPPORTIVE",
   safetyFlags |-> << flag >>,
   rationale |-> "Fallback classification due to processing error"]

RECURSIVE trimStart(_)
trimStart(s) ==
  IF Len(s) > 0 /\ IsSpaceChar(CharAt(s, 1)) THEN trimStart(SubSeq(s, 2, Len(s))) ELSE s

RECURSIVE trimEnd(_)
trimEnd(s) ==
  IF Len(s) > 0 /\ IsSpaceChar(CharAt(s, Len(s)))
  THEN trimEnd(SubSeq(s, 1, Len(s) - 1)) ELSE s

trim(s) == trimEnd(trimStart(s))

startsWith(s, p) == Len(s) >= Len(p) /\ SubSeq(s, 1, Len(p)) = p
endsWith(s, p) == Len(s) >= Len(p) /\ SubSeq(s, Len(s) - Len(p) + 1, Len(s)) = p

\* A TLA+ string cannot hold a backtick: the model writes ^ for it, so the
\* fence of three backticks is "^^^".
Fence == "^^^"

\* The code-fence stripping of parseClassificationResponse.
stripOpeningFence(trimmed) ==
  IF startsWith(trimmed, Fence \o "json") THEN SubSeq(trimmed, 8, Len(trimmed))
  ELSE IF startsWith(trimmed, Fence) THEN SubSeq(trimmed, 4, Len(trimmed))
  ELSE trimmed

stripClosingFence(opened) ==
  IF endsWith(opened, Fence) THEN SubSeq(opened, 1, Len(opened) - 3) ELSE opened

\* Each intermediate text is computed once and bound as a value.
stripFences(text) ==
  CHOOSE cleaned \in
    { trim(closed) :
        closed \in { stripClosingFence(opened) :
                       opened \in { stripOpeningFence(trimmed) :
                                      trimmed \in { trim(text) } } } } : TRUE

\* The JSON texts of the model and what JSON.parse makes of each: an object
\* is a record of its fields, null is [isNull |-> TRUE]. Every other text
\* the model produces is not JSON.
ObjHigh ==
  "{\"riskLevel\":\"HIGH\",\"intent\":\"MENTAL_HEALTH\",\"suggestedMode\":\"CRISIS\",\"safetyFlags\":[\"finality\"],\"rationale\":\"Signs of finality.\"}"
ObjLow ==
  "{\"riskLevel\":\"LOW\",\"intent\":\"GENERAL\",\"suggestedMode\":\"NORMAL\",\"safetyFlags\":[],\"rationale\":\"Neutral small talk.\"}"
ObjMedium ==
  "{\"riskLevel\":\"MEDIUM\",\"intent\":\"UNKNOWN\",\"suggestedMode\":\"SUPPORTIVE\",\"safetyFlags\":[\"hopeless\",\"LLM_SEMANTIC_MEDIUM_RISK\"]}"
ObjLowCrisis ==
  "{\"riskLevel\":\"LOW\",\"intent\":\"MENTAL_HEALTH\",\"suggestedMode\":\"CRISIS\",\"safetyFlags\":\"none\",\"rationale\":7}"
ObjBadRisk ==
  "{\"riskLevel\":\"SEVERE\",\"intent\":\"MENTAL_HEALTH\",\"suggestedMode\":\"CRISIS\",\"safetyFlags\":[],\"rationale\":\"Severe.\"}"
ObjBadIntent ==
  "{\"riskLevel\":\"HIGH\",\"intent\":\"SELF_HARM\",\"suggestedMode\":\"CRISIS\",\"safetyFlags\":[],\"rationale\":\"Intent.\"}"
ObjBadMode ==
  "{\"riskLevel\":\"LOW\",\"intent\":\"GENERAL\",\"suggestedMode\":\"EMERGENCY\",\"safetyFlags\":[],\"rationale\":\"Mode.\"}"
ObjNoRisk ==
  "{\"intent\":\"GENERAL\",\"suggestedMode\":\"NORMAL\"}"

JsonTexts ==
  << [text |-> ObjHigh,
      value |-> [riskLevel |-> "HIGH", intent |-> "MENTAL_HEALTH",
                 suggestedMode |-> "CRISIS", safetyFlags |-> << "finality" >>,
                 rationale |-> "Signs of finality."]],
     [text |-> ObjLow,
      value |-> [riskLevel |-> "LOW", intent |-> "GENERAL", suggestedMode |-> "NORMAL",
                 safetyFlags |-> << >>, rationale |-> "Neutral small talk."]],
     [text |-> ObjMedium,
      value |-> [riskLevel |-> "MEDIUM", intent |-> "UNKNOWN",
                 suggestedMode |-> "SUPPORTIVE",
                 safetyFlags |-> << "hopeless", "LLM_SEMANTIC_MEDIUM_RISK" >>]],
     [text |-> ObjLowCrisis,
      value |-> [riskLevel |-> "LOW", intent |-> "MENTAL_HEALTH",
                 suggestedMode |-> "CRISIS", safetyFlagsNotArray |-> TRUE,
                 rationaleNotString |-> TRUE]],
     [text |-> ObjBadRisk,
      value |-> [riskLevel |-> "SEVERE", intent |-> "MENTAL_HEALTH",
                 suggestedMode |-> "CRISIS", safetyFlags |-> << >>,
                 rationale |-> "Severe."]],
     [text |-> ObjBadIntent,
      value |-> [riskLevel |-> "HIGH", intent |-> "SELF_HARM",
                 suggestedMode |-> "CRISIS", safetyFlags |-> << >>,
                 rationale |-> "Intent."]],
     [text |-> ObjBadMode,
      value |-> [riskLevel |-> "LOW", intent |-> "GENERAL",
                 suggestedMode |-> "EMERGENCY", safetyFlags |-> << >>,
                 rationale |-> "Mode."]],
     [text |-> ObjNoRisk,
      value |-> [intent |-> "GENERAL", suggestedMode |-> "NORMAL"]],
     [text |-> "null", value |-> [isNull |-> TRUE]] >>

IsJson(s) == \E n \in 1..Len(JsonTexts) : JsonTexts[n].text = s

JSON_parse(s) == JsonTexts[CHOOSE n \in 1..Len(JsonTexts) : JsonTexts[n].text = s].value

\* parsed.<field>, with "undefined" for a missing field.
field(parsed, name) == IF name \in DOMAIN parsed THEN parsed[name] ELSE "undefined"

Threw(message) == [threw |-> TRUE, message |-> message]

\* parseClassificationResponse without the check of intent.
parseClassificationResponseIntentUnchecked(text) ==
  LET cleaned == stripFences(text)
  IN  IF ~IsJson(cleaned) THEN Threw("Unexpected token in JSON")
      ELSE LET parsed == JSON_parse(cleaned)
           IN  IF "isNull" \in DOMAIN parsed
               THEN Threw("Cannot read properties of null (reading 'riskLevel')")
               ELSE IF field(parsed, "riskLevel") \notin RiskLevels
               THEN Threw("Invalid riskLevel: " \o field(parsed, "riskLevel"))
               ELSE IF field(parsed, "suggestedMode") \notin Modes
               THEN Threw("Invalid suggestedMode: " \o field(parsed, "suggestedMode"))
               ELSE [threw |-> FALSE,
                     value |->
                       [riskLevel |-> parsed.riskLevel,
                        intent |-> field(parsed, "intent"),
                        suggestedMode |-> parsed.suggestedMode,
                        safetyFlags |-> IF "safetyFlags" \in DOMAIN parsed
                                        THEN parsed.safetyFlags ELSE << >>,
                        rationale |-> IF "rationale" \in DOMAIN parsed
                                      THEN parsed.rationale
                                      ELSE "No rationale provided"]]

\* parseClassificationResponse: [threw |-> FALSE, value |-> the classification]
\* or [threw |-> TRUE, message |-> the message of the error].
parseClassificationResponse(text) ==
  LET cleaned == stripFences(text)
  IN  IF ~IsJson(cleaned) THEN Threw("Unexpected token in JSON")
      ELSE LET parsed == JSON_parse(cleaned)
           IN  IF "isNull" \in DOMAIN parsed
               THEN Threw("Cannot read properties of null (reading 'riskLevel')")
               ELSE IF field(parsed, "riskLevel") \notin RiskLevels
               THEN Threw("Invalid riskLevel: " \o field(parsed, "riskLevel"))
               ELSE IF field(parsed, "intent") \notin Intents
               THEN Threw("Invalid intent: " \o field(parsed, "intent"))
               ELSE IF field(parsed, "suggestedMode") \notin Modes
               THEN Threw("Invalid suggestedMode: " \o field(parsed, "suggestedMode"))
               ELSE [threw |-> FALSE,
                     value |->
                       [riskLevel |-> parsed.riskLevel,
                        intent |-> parsed.intent,
                        suggestedMode |-> parsed.suggestedMode,
                        safetyFlags |-> IF "safetyFlags" \in DOMAIN parsed
                                        THEN parsed.safetyFlags ELSE << >>,
                        rationale |-> IF "rationale" \in DOMAIN parsed
                                      THEN parsed.rationale
                                      ELSE "No rationale provided"]]

\* A flag pushed for every risk level, LOW included.
withSemanticFlagEveryTier(classification) ==
  [classification EXCEPT
     !.safetyFlags = Append(@, "LLM_SEMANTIC_" \o classification.riskLevel \o "_RISK")]

\* The flag classify pushes after a successful parse.
withSemanticFlag(classification) ==
  IF classification.riskLevel = "HIGH"
  THEN [classification EXCEPT !.safetyFlags = Append(@, "LLM_SEMANTIC_HIGH_RISK")]
  ELSE IF classification.riskLevel = "MEDIUM"
  THEN [classification EXCEPT !.safetyFlags = Append(@, "LLM_SEMANTIC_MEDIUM_RISK")]
  ELSE classification

\* The catch block taking every error for the timeout.
catchFallbackAlwaysTimeout(errorMessage) == getConservativeFallback("SEMANTIC_TIMEOUT")

\* The catch block without its test for the timeout.
catchFallbackNoTimeoutTest(errorMessage) == getConservativeFallback("SEMANTIC_PARSE_FAIL")

\* The catch block of classify.
catchFallback(errorMessage) ==
  IF errorMessage = "SEMANTIC_TIMEOUT"
  THEN getConservativeFallback("SEMANTIC_TIMEOUT")
  ELSE getConservativeFallback("SEMANTIC_PARSE_FAIL")

\* classify from the settled race on: the value of the race is parsed and
\* flagged, an error of the race or of the parse goes to the catch block.
\* The parse is computed once and bound as a value.
classifyAfterRace(race, raceValue) ==
  IF race = "rejected" THEN catchFallback(raceValue)
  ELSE CHOOSE classification \in
         { IF parsed.threw THEN catchFallback(parsed.message)
           ELSE withSemanticFlag(parsed.value) :
             parsed \in { parseClassificationResponse(raceValue) } } : TRUE

\* The request classify sends.
classificationRequest(text) ==
  << [role |-> "system", content |-> "CLASSIFICATION_SYSTEM_PROMPT"],
     [role |-> "user", content |-> "Classify this message:\n\n\"" \o text \o "\""] >>

(***************************************************************************)
(* InputAnalyzer.analyzeWithSemantic: the merge.                           *)
(***************************************************************************)
\* [...new Set([...a, ...b])]: the first occurrences, in order.
\* The concatenation kept as it is, duplicates included.
dedupeNothing(a, seen) == a

RECURSIVE dedupe(_, _)
dedupe(a, seen) ==
  IF a = << >> THEN << >>
  ELSE IF \E n \in 1..Len(seen) : seen[n] = Head(a)
  THEN dedupe(Tail(a), seen)
  ELSE << Head(a) >> \o dedupe(Tail(a), Append(seen, Head(a)))

\* Step 2 left out.
skipSemanticNever(ruleAnalysis) == FALSE

skipSemantic(ruleAnalysis) ==
  ruleAnalysis.riskLevel = "HIGH" \/ ruleAnalysis.suggestedMode = "CRISIS"

\* Steps 2 and 3: the rule-based result with semanticUsed false.
ruleOnly(ruleAnalysis) ==
  [intent |-> ruleAnalysis.intent, riskLevel |-> ruleAnalysis.riskLevel,
   safetyFlags |-> ruleAnalysis.safetyFlags,
   suggestedMode |-> ruleAnalysis.suggestedMode,
   modeReason |-> ruleAnalysis.modeReason, semanticUsed |-> FALSE]

\* Step 5 with a semantic risk equal to the rule-based one counted as an
\* escalation.
mergeEscalatingOnEqual(ruleAnalysis, semanticResult) ==
  LET finalRiskLevel == getMaxRiskLevel(ruleAnalysis.riskLevel, semanticResult.riskLevel)
      finalMode == getModeForRisk(finalRiskLevel)
      riskWasEscalated == riskLevelToNumber(semanticResult.riskLevel)
                            >= riskLevelToNumber(ruleAnalysis.riskLevel)
  IN  [intent |-> IF semanticResult.intent # "UNKNOWN" THEN semanticResult.intent
                  ELSE ruleAnalysis.intent,
       riskLevel |-> finalRiskLevel,
       safetyFlags |-> dedupe(ruleAnalysis.safetyFlags \o semanticResult.safetyFlags, << >>),
       suggestedMode |-> finalMode,
       modeReason |-> IF riskWasEscalated THEN "LLM_SEMANTIC_ESCALATION"
                      ELSE IF semanticResult.riskLevel = ruleAnalysis.riskLevel
                      THEN "LLM_SEMANTIC_CONFIRM"
                      ELSE ruleAnalysis.modeReason,
       rationale |-> semanticResult.rationale,
       semanticUsed |-> TRUE,
       semanticRiskLevel |-> semanticResult.riskLevel,
       semanticModeReason |-> IF semanticResult.suggestedMode = finalMode
                              THEN "SEMANTIC_AGREED"
                              ELSE IF riskWasEscalated THEN "SEMANTIC_ESCALATED"
                              ELSE "SEMANTIC_RULE_TOOK_PRECEDENCE"]

\* Step 5 with the final mode read from the semantic result when the
\* semantic risk is not below the rule-based one.
mergeReadingSemanticMode(ruleAnalysis, semanticResult) ==
  LET finalRiskLevel == getMaxRiskLevel(ruleAnalysis.riskLevel, semanticResult.riskLevel)
      riskWasEscalated == riskLevelToNumber(semanticResult.riskLevel)
                            > riskLevelToNumber(ruleAnalysis.riskLevel)
      finalMode == IF riskLevelToNumber(semanticResult.riskLevel)
                        >= riskLevelToNumber(ruleAnalysis.riskLevel)
                   THEN semanticResult.suggestedMode
                   ELSE ruleAnalysis.suggestedMode
  IN  [intent |-> IF semanticResult.intent # "UNKNOWN" THEN semanticResult.intent
                  ELSE ruleAnalysis.intent,
       riskLevel |-> finalRiskLevel,
       safetyFlags |-> dedupe(ruleAnalysis.safetyFlags \o semanticResult.safetyFlags, << >>),
       suggestedMode |-> finalMode,
       modeReason |-> IF riskWasEscalated THEN "LLM_SEMANTIC_ESCALATION"
                      ELSE IF semanticResult.riskLevel = ruleAnalysis.riskLevel
                      THEN "LLM_SEMANTIC_CONFIRM"
                      ELSE ruleAnalysis.modeReason,
       rationale |-> semanticResult.rationale,
       semanticUsed |-> TRUE,
       semanticRiskLevel |-> semanticResult.riskLevel,
       semanticModeReason |-> IF semanticResult.suggestedMode = finalMode
                              THEN "SEMANTIC_AGREED"
                              ELSE IF riskWasEscalated THEN "SEMANTIC_ESCALATED"
                              ELSE "SEMANTIC_RULE_TOOK_PRECEDENCE"]

\* Step 5.
merge(ruleAnalysis, semanticResult) ==
  LET finalRiskLevel == getMaxRiskLevel(ruleAnalysis.riskLevel, semanticResult.riskLevel)
      finalMode == getModeForRisk(finalRiskLevel)
      riskWasEscalated == riskLevelToNumber(semanticResult.riskLevel)
                            > riskLevelToNumber(ruleAnalysis.riskLevel)
  IN  [intent |-> IF semanticResult.intent # "UNKNOWN" THEN semanticResult.intent
                  ELSE ruleAnalysis.intent,
       riskLevel |-> finalRiskLevel,
       safetyFlags |-> dedupe(ruleAnalysis.safetyFlags \o semanticResult.safetyFlags, << >>),
       suggestedMode |-> finalMode,
       modeReason |-> IF riskWasEscalated THEN "LLM_SEMANTIC_ESCALATION"
                      ELSE IF semanticResult.riskLevel = ruleAnalysis.riskLevel
                      THEN "LLM_SEMANTIC_CONFIRM"
                      ELSE ruleAnalysis.modeReason,
       rationale |-> semanticResult.rationale,
       semanticUsed |-> TRUE,
       semanticRiskLevel |-> semanticResult.riskLevel,
       semanticModeReason |-> IF semanticResult.suggestedMode = finalMode
                              THEN "SEMANTIC_AGREED"
                              ELSE IF riskWasEscalated THEN "SEMANTIC_ESCALATED"
                              ELSE "SEMANTIC_RULE_TOOK_PRECEDENCE"]

(***************************************************************************)
(* The inputs of analyzeWithSemantic and classify.                         *)
(***************************************************************************)
Fragments ==
  << "kill myself", "SUICIDE", "want to disappear", "only way out", "hopeless",
     "give up", "no one cares", "pointless", "anxious", "hello" >>

RECURSIVE joinFragments(_)
joinFragments(ns) ==
  IF Len(ns) = 1 THEN Fragments[ns[1]]
  ELSE Fragments[ns[1]] \o " " \o joinFragments(Tail(ns))

\* The texts of one to MaxFragments fragments, separated by a space.
Texts ==
  { joinFragments(ns) :
      ns \in UNION { [1..k -> 1..Len(Fragments)] : k \in 1..MaxFragments } }

\* What the classification request can come back with.
SemanticCompletions ==
  { [choices |-> << [content |-> c] >>] :
      c \in { ObjHigh, ObjLow, ObjMedium, ObjLowCrisis, ObjBadRisk, ObjBadIntent,
              ObjBadMode, ObjNoRisk, "null",
              "I'm sorry, I can't classify this message.",
              Fence \o "json\n" \o ObjHigh \o "\n" \o Fence,
              Fence \o "\n" \o ObjLow \o "\n" \o Fence,
              Fence \o "JSON\n" \o ObjHigh \o "\n" \o Fence,
              "  " \o ObjMedium \o "\n" } }
  \cup { [choices |-> << >>] }

IdleSem ==
  [pc |-> "idle", entry |-> "none", text |-> "", ruleAnalysis |-> Unset,
   llm |-> "none", timer |-> "none", race |-> "none", raceValue |-> "",
   cause |-> "none", classification |-> Unset, result |-> Unset,
   generateCalls |-> 0]

(***************************************************************************)
(* analyzeWithSemantic and classify as one process.                        *)
(***************************************************************************)
\* analyzeWithSemantic is called and runs to its await of analyze.
CallAnalyzeWithSemantic(text) ==
  /\ sem.pc = "idle"
  /\ sem' = [sem EXCEPT !.pc = "await_analyze", !.entry = "analyzeWithSemantic",
                        !.text = text, !.ruleAnalysis = analyze(text)]
  /\ UNCHANGED << env, chatVars, directVars >>

\* classify is called directly.
CallClassify(text) ==
  /\ sem.pc = "idle"
  /\ sem' = [sem EXCEPT !.pc = "classify_entry", !.entry = "classify", !.text = text]
  /\ UNCHANGED << env, chatVars, directVars >>

\* Step 2: the rule-based result is already maximal.
SkipSemanticMaximal ==
  /\ sem.pc = "await_analyze"
  /\ skipSemantic(sem.ruleAnalysis)
  /\ sem' = [sem EXCEPT !.pc = "returned", !.result = ruleOnly(sem.ruleAnalysis)]
  /\ UNCHANGED << env, chatVars, directVars >>

\* Step 3 left out: classify is called although the classifier is disabled.
SkipSemanticDisabledMissing ==
  /\ sem.pc = "await_analyze"
  /\ ~skipSemantic(sem.ruleAnalysis)
  /\ ~getSemanticEnabled(env)
  /\ sem' = [sem EXCEPT !.pc = "classify_entry"]
  /\ UNCHANGED << env, chatVars, directVars >>

\* Step 3: the classifier is disabled.
SkipSemanticDisabled ==
  /\ sem.pc = "await_analyze"
  /\ ~skipSemantic(sem.ruleAnalysis)
  /\ ~getSemanticEnabled(env)
  /\ sem' = [sem EXCEPT !.pc = "returned", !.result = ruleOnly(sem.ruleAnalysis)]
  /\ UNCHANGED << env, chatVars, directVars >>

\* Step 4: classify is called.
InvokeClassify ==
  /\ sem.pc = "await_analyze"
  /\ ~skipSemantic(sem.ruleAnalysis)
  /\ getSemanticEnabled(env)
  /\ sem' = [sem EXCEPT !.pc = "classify_entry"]
  /\ UNCHANGED << env, chatVars, directVars >>

\* Where classify returns to: its caller awaits it.
AfterClassify(classification) ==
  [sem EXCEPT !.pc = "await_classify", !.classification = classification]

\* classify, disabled: the fallback flagged SEMANTIC_DISABLED.
ClassifyDisabled ==
  /\ sem.pc = "classify_entry"
  /\ ~getSemanticEnabled(env)
  /\ sem' = AfterClassify(getConservativeFallback("SEMANTIC_DISABLED"))
  /\ UNCHANGED << env, chatVars, directVars >>

\* classify calls generate, whose ensureInitialized throws: the promise of
\* generate is rejected when the race starts. The timer is created all the same.
ClassifyGenerateThrows ==
  /\ sem.pc = "classify_entry"
  /\ getSemanticEnabled(env)
  /\ ensureInitializedThrows(env)
  /\ sem' = [sem EXCEPT !.pc = "await_race", !.llm = "rejected", !.timer = "armed",
                        !.race = "rejected", !.raceValue = API_KEY_ERROR,
                        !.cause = "request", !.generateCalls = @ + 1]
  /\ UNCHANGED << env, chatVars, directVars >>

\* classify calls generate with the stub provider: the response is there
\* before any timer can fire.
ClassifyStub ==
  /\ sem.pc = "classify_entry"
  /\ getSemanticEnabled(env)
  /\ ~ensureInitializedThrows(env)
  /\ env.LLM_PROVIDER # "openai"
  /\ \E n \in 1..3 :
       sem' = [sem EXCEPT !.pc = "await_race", !.llm = "fulfilled", !.timer = "armed",
                          !.race = "fulfilled",
                          !.raceValue = stubResponses(classificationRequest(sem.text))[n],
                          !.cause = "response", !.generateCalls = @ + 1]
  /\ UNCHANGED << env, chatVars, directVars >>

\* classify sends the request and awaits it alone: no timer, no race.
ClassifyOpenAIWithoutTimer ==
  /\ sem.pc = "classify_entry"
  /\ getSemanticEnabled(env)
  /\ ~ensureInitializedThrows(env)
  /\ env.LLM_PROVIDER = "openai"
  /\ sem' = [sem EXCEPT !.pc = "await_race", !.llm = "pending",
                        !.race = "pending", !.generateCalls = @ + 1]
  /\ UNCHANGED << env, chatVars, directVars >>

\* classify sends the request and arms the timer: the race is open.
ClassifyOpenAI ==
  /\ sem.pc = "classify_entry"
  /\ getSemanticEnabled(env)
  /\ ~ensureInitializedThrows(env)
  /\ env.LLM_PROVIDER = "openai"
  /\ sem' = [sem EXCEPT !.pc = "await_race", !.llm = "pending", !.timer = "armed",
                        !.race = "pending", !.generateCalls = @ + 1]
  /\ UNCHANGED << env, chatVars, directVars >>

\* A macrotask runs only when no continuation is ready.
SemNoJobReady ==
  \/ sem.pc = "await_race" /\ sem.race = "pending"
  \/ sem.pc = "returned"

\* Macrotask: the completion arrives. It settles the race if the race is open.
SemCompletionArrives(completion) ==
  /\ SemNoJobReady
  /\ sem.llm = "pending"
  /\ sem' = IF sem.race = "pending"
            THEN [sem EXCEPT !.llm = "fulfilled", !.race = "fulfilled",
                             !.raceValue = completionText(completion),
                             !.cause = "response"]
            ELSE [sem EXCEPT !.llm = "fulfilled"]
  /\ UNCHANGED << env, chatVars, directVars >>

\* Macrotask: the request fails.
SemRequestFails(message) ==
  /\ SemNoJobReady
  /\ sem.llm = "pending"
  /\ sem' = IF sem.race = "pending"
            THEN [sem EXCEPT !.llm = "rejected", !.race = "rejected",
                             !.raceValue = message, !.cause = "request"]
            ELSE [sem EXCEPT !.llm = "rejected"]
  /\ UNCHANGED << env, chatVars, directVars >>

\* Macrotask: the timer of createTimeout fires and rejects its promise.
TimerFires ==
  /\ SemNoJobReady
  /\ sem.timer = "armed"
  /\ sem' = IF sem.race = "pending"
            THEN [sem EXCEPT !.timer = "fired", !.race = "rejected",
                             !.raceValue = "SEMANTIC_TIMEOUT", !.cause = "timer"]
            ELSE [sem EXCEPT !.timer = "fired"]
  /\ UNCHANGED << env, chatVars, directVars >>

\* The await of the race resumes: parse and flag, or the catch block.
ClassifyResumes ==
  /\ sem.pc = "await_race"
  /\ sem.race # "pending"
  /\ sem' = AfterClassify(classifyAfterRace(sem.race, sem.raceValue))
  /\ UNCHANGED << env, chatVars, directVars >>

\* The direct caller of classify has its classification.
ClassifyReturns ==
  /\ sem.pc = "await_classify"
  /\ sem.entry = "classify"
  /\ sem' = [sem EXCEPT !.pc = "returned", !.result = sem.classification]
  /\ UNCHANGED << env, chatVars, directVars >>

\* Step 5 of analyzeWithSemantic: the merge.
Merge ==
  /\ sem.pc = "await_classify"
  /\ sem.entry = "analyzeWithSemantic"
  /\ sem' = [sem EXCEPT !.pc = "returned",
                        !.result = merge(sem.ruleAnalysis, sem.classification)]
  /\ UNCHANGED << env, chatVars, directVars >>

(***************************************************************************)
(* ResponseValidator.validate called directly: a caller validates a text,  *)
(* picks the text to use as handleUserMessage does, and validates that     *)
(* text again.                                                             *)
(***************************************************************************)
ValidatorFragments ==
  << "You have depression", "my diagnosis", "you should TAKE Prozac", "50 mg of it",
     "I promise", "Everything will be okay", "that sounds hard" >>

RECURSIVE joinValidatorFragments(_)
joinValidatorFragments(ns) ==
  IF Len(ns) = 1 THEN ValidatorFragments[ns[1]]
  ELSE ValidatorFragments[ns[1]] \o " " \o joinValidatorFragments(Tail(ns))

\* The assistant texts: one to MaxFragments fragments separated by a space,
\* and the fixed texts of the program.
AssistantTexts ==
  { joinValidatorFragments(ns) :
      ns \in UNION { [1..k -> 1..Len(ValidatorFragments)] : k \in 1..MaxFragments } }
  \cup { "", SAFE_FALLBACK_NORMAL, SAFE_FALLBACK_SUPPORTIVE, SAFE_FALLBACK_CRISIS,
         CRISIS_SAFE_MESSAGE }

\* The user texts of a direct call: validate does not read its userText.
ValidatorUserTexts == {"hello", "am I depressed? promise me"}

IdleVal ==
  [pc |-> "idle", mode |-> "", userText |-> "", assistantText |-> "",
   first |-> Unset, text |-> "", second |-> Unset]

\* validate is called; the caller then picks the text to use.
CallValidate(mode, userText, assistantText) ==
  /\ val.pc = "idle"
  /\ LET first == validate(mode, userText, assistantText)
     IN  val' = [val EXCEPT !.pc = "validated", !.mode = mode,
                            !.userText = userText,
                            !.assistantText = assistantText,
                            !.first = first,
                            !.text = chooseAssistantMessage(first, assistantText)]
  /\ UNCHANGED << env, chatVars, sem, recent, log >>

\* The text picked is validated again.
ValidateAgain ==
  /\ val.pc = "validated"
  /\ val' = [val EXCEPT !.pc = "revalidated",
                        !.second = validate(val.mode, val.userText, val.text)]
  /\ UNCHANGED << env, chatVars, sem, recent, log >>

(***************************************************************************)
(* ConversationStore called directly: append, getRecent and clear. The     *)
(* n-th message appended to a conversation since its last clear carries n  *)
(* in the field turn.                                                      *)
(***************************************************************************)
\* The limits getRecent is called with.
Limits == {0, 1, 2, RECENT_MESSAGES_LIMIT, MAX_MESSAGES_PER_CONVERSATION,
           MAX_MESSAGES_PER_CONVERSATION + 1}

NoRecent == [pc |-> "none", conversationId |-> "", limit |-> 0, result |-> << >>]

StoreMessage(n) ==
  ChatMessage(IF n % 2 = 1 THEN "user" ELSE "assistant", "text", n)

StoreAppend(conversationId) ==
  /\ Len(log[conversationId]) < MaxAppends
  /\ LET message == StoreMessage(Len(log[conversationId]) + 1)
     IN  /\ store' = append(store, conversationId, message)
         /\ log' = [log EXCEPT ![conversationId] = Append(@, message)]
  /\ recent' = NoRecent
  /\ UNCHANGED << env, run, microtasks, callerActive, calls, completed, sem, val >>

StoreGetRecent(conversationId, limit) ==
  /\ recent' = [pc |-> "returned", conversationId |-> conversationId,
                limit |-> limit, result |-> getRecent(store, conversationId, limit)]
  /\ UNCHANGED << env, chatVars, sem, val, log >>

StoreClear(conversationId) ==
  /\ store' = clearOne(store, conversationId)
  /\ log' = [log EXCEPT ![conversationId] = << >>]
  /\ recent' = NoRecent
  /\ UNCHANGED << env, run, microtasks, callerActive, calls, completed, sem, val >>

StoreClearAll ==
  /\ store' = clearAll(store)
  /\ log' = [c \in ConversationIds |-> << >>]
  /\ recent' = NoRecent
  /\ UNCHANGED << env, run, microtasks, callerActive, calls, completed, sem, val >>

(***************************************************************************)
(* The specifications.                                                     *)
(***************************************************************************)
Init ==
  /\ env \in Environments
  /\ store = [c \in {} |-> << >>]
  /\ run = [r \in Runs |-> IdleRun]
  /\ microtasks = << >>
  /\ callerActive = FALSE
  /\ calls = [r \in Runs |-> [generate |-> 0, classify |-> 0]]
  /\ completed = << >>
  /\ sem = IdleSem
  /\ val = IdleVal
  /\ recent = NoRecent
  /\ log = [c \in ConversationIds |-> << >>]

\* The chat server: concurrent calls of handleUserMessage.
Next ==
  \/ \E r \in Runs, c \in ConversationIds, m \in UserMessages : Call(r, c, m)
  \/ \E r \in Runs : PromiseHop(r)
  \/ \E r \in Runs : CrisisAppendUser(r)
  \/ \E r \in Runs : CrisisAppendAssistant(r)
  \/ \E r \in Runs : CrisisReturn(r)
  \/ \E r \in Runs : GetRecent(r)
  \/ \E r \in Runs : BuildPrompt(r)
  \/ \E r \in Runs : GenerateThrows(r)
  \/ \E r \in Runs : GenerateStub(r)
  \/ \E r \in Runs : GenerateOpenAI(r)
  \/ \E r \in Runs, c \in Completions : CompletionArrives(r, c)
  \/ \E r \in Runs, m \in RequestErrors : RequestFails(r, m)
  \/ \E r \in Runs : GenerateRejected(r)
  \/ \E r \in Runs : Validate(r)
  \/ \E r \in Runs : AppendUser(r)
  \/ \E r \in Runs : AppendAssistant(r)
  \/ \E r \in Runs : Return(r)

Spec == Init /\ [][Next]_vars

\* One call of analyzeWithSemantic, or of classify.
NextSemantic ==
  \/ \E t \in Texts : CallAnalyzeWithSemantic(t)
  \/ \E t \in Texts : CallClassify(t)
  \/ SkipSemanticMaximal
  \/ SkipSemanticDisabled
  \/ InvokeClassify
  \/ ClassifyDisabled
  \/ ClassifyGenerateThrows
  \/ ClassifyStub
  \/ ClassifyOpenAI
  \/ \E c \in SemanticCompletions : SemCompletionArrives(c)
  \/ \E m \in RequestErrors : SemRequestFails(m)
  \/ TimerFires
  \/ ClassifyResumes
  \/ ClassifyReturns
  \/ Merge

SpecSemantic == Init /\ [][NextSemantic]_vars

\* The steps the program takes by itself once called: the synchronous code
\* of analyzeWithSemantic and classify and the continuations of their awaits.
SemProgramStep ==
  \/ SkipSemanticMaximal
  \/ SkipSemanticDisabled
  \/ InvokeClassify
  \/ ClassifyDisabled
  \/ ClassifyGenerateThrows
  \/ ClassifyStub
  \/ ClassifyOpenAI
  \/ ClassifyResumes
  \/ ClassifyReturns
  \/ Merge

\* The event loop runs every ready continuation and every timer that is due.
\* Nothing makes the generation request ever settle.
SpecSemanticLive ==
  /\ SpecSemantic
  /\ WF_vars(SemProgramStep)
  /\ WF_vars(TimerFires)

\* One direct use of ResponseValidator.
NextValidator ==
  \/ \E mode \in Modes, u \in ValidatorUserTexts, t \in AssistantTexts :
       CallValidate(mode, u, t)
  \/ ValidateAgain

SpecValidator == Init /\ [][NextValidator]_vars

\* Direct use of ConversationStore.
NextStore ==
  \/ \E c \in ConversationIds : StoreAppend(c)
  \/ \E c \in ConversationIds, limit \in Limits : StoreGetRecent(c, limit)
  \/ \E c \in ConversationIds : StoreClear(c)
  \/ StoreClearAll

SpecStore == Init /\ [][NextStore]_vars

(***************************************************************************)
(* Properties of analyzeWithSemantic and classify, under SpecSemantic.     *)
(***************************************************************************)
\* LOW < MEDIUM < HIGH.
RankOf(risk) ==
  CASE risk = "LOW" -> 1
    [] risk = "MEDIUM" -> 2
    [] risk = "HIGH" -> 3

\* The fixed mapping M from risk level to mode.
ModeOf(risk) ==
  CASE risk = "LOW" -> "NORMAL"
    [] risk = "MEDIUM" -> "SUPPORTIVE"
    [] risk = "HIGH" -> "CRISIS"

\* classify took its catch block: the timer won the race, the request
\* failed, or the response did not parse or validate.
SemFellBack ==
  \/ sem.cause \in {"timer", "request"}
  \/ sem.cause = "response" /\ parseClassificationResponse(sem.raceValue).threw

\* analyzeWithSemantic has returned.
SemReturned == sem.pc = "returned" /\ sem.entry = "analyzeWithSemantic"

\* C1: escalate-only merge. Whenever analyzeWithSemantic merges a rule-based
\* and a semantic risk level, the risk level it returns is the higher of the
\* two under LOW < MEDIUM < HIGH; and on every path (semantic skipped,
\* disabled, succeeded or fallen back) the risk level it returns is never
\* below the one analyze returned for the same text (ruleAnalysis, the
\* result of step 1).
C1_EscalateOnly ==
  SemReturned =>
    /\ RankOf(sem.result.riskLevel) >= RankOf(sem.ruleAnalysis.riskLevel)
    /\ sem.result.semanticUsed =>
         LET ruleRank == RankOf(sem.ruleAnalysis.riskLevel)
             semanticRank == RankOf(sem.classification.riskLevel)
         IN  RankOf(sem.result.riskLevel)
               = IF ruleRank >= semanticRank THEN ruleRank ELSE semanticRank

\* A merge in which the semantic level is below the rule-based one.
C1_Witness ==
  /\ SemReturned
  /\ sem.result.semanticUsed
  /\ sem.ruleAnalysis.riskLevel = "MEDIUM"
  /\ sem.classification.riskLevel = "LOW"
  /\ sem.result.riskLevel = "MEDIUM"

\* C4: whenever classify takes its fallback path (the timer fired first, the
\* request failed, or the response failed parsing or validation) it resolves
\* with MEDIUM, UNKNOWN, SUPPORTIVE and exactly one safety flag, which names
\* the cause: SEMANTIC_TIMEOUT for the timer, SEMANTIC_PARSE_FAIL otherwise.
\* The disabled classifier resolves with the same levels and the flag
\* SEMANTIC_DISABLED. LOW and HIGH are never returned on these paths.
C4_FallbackIsConservative ==
  /\ (sem.pc \in {"await_classify", "returned"} /\ SemFellBack) =>
       /\ sem.classification.riskLevel = "MEDIUM"
       /\ sem.classification.intent = "UNKNOWN"
       /\ sem.classification.suggestedMode = "SUPPORTIVE"
       /\ sem.classification.safetyFlags
            = << IF sem.cause = "timer" THEN "SEMANTIC_TIMEOUT"
                 ELSE "SEMANTIC_PARSE_FAIL" >>
  /\ (sem.pc = "returned" /\ sem.entry = "classify" /\ ~getSemanticEnabled(env)) =>
       /\ sem.result.riskLevel = "MEDIUM"
       /\ sem.result.intent = "UNKNOWN"
       /\ sem.result.suggestedMode = "SUPPORTIVE"
       /\ sem.result.safetyFlags = << "SEMANTIC_DISABLED" >>

\* classify has returned its fallback after the timer won the race.
C4_Witness ==
  /\ sem.pc = "returned"
  /\ sem.entry = "classify"
  /\ sem.cause = "timer"
  /\ sem.result.safetyFlags = << "SEMANTIC_TIMEOUT" >>

\* C5: when analyzeWithSemantic invokes the semantic classifier and that call
\* falls back, the final result is MEDIUM with SUPPORTIVE: a failure of the
\* semantic call alone gives neither HIGH/CRISIS nor LOW/NORMAL.
C5_SemanticFailureIsSupportive ==
  (SemReturned /\ sem.result.semanticUsed /\ SemFellBack) =>
    /\ sem.result.riskLevel = "MEDIUM"
    /\ sem.result.suggestedMode = "SUPPORTIVE"

\* The request failed on a text whose rule-based level is LOW.
C5_Witness ==
  /\ SemReturned
  /\ sem.result.semanticUsed
  /\ sem.cause = "request"
  /\ sem.ruleAnalysis.riskLevel = "LOW"
  /\ sem.result.riskLevel = "MEDIUM"

\* C7: every result of analyze and of analyzeWithSemantic has
\* suggestedMode = M(riskLevel), M being LOW -> NORMAL, MEDIUM -> SUPPORTIVE,
\* HIGH -> CRISIS; a semantic result whose suggestedMode disagrees with its
\* riskLevel does not change the final mode.
C7_ModeFollowsRisk ==
  /\ (sem.entry = "analyzeWithSemantic" /\ sem.pc # "idle") =>
       sem.ruleAnalysis.suggestedMode = ModeOf(sem.ruleAnalysis.riskLevel)
  /\ SemReturned => sem.result.suggestedMode = ModeOf(sem.result.riskLevel)

\* A merge with a semantic result that says LOW and CRISIS.
C7_Witness ==
  /\ SemReturned
  /\ sem.result.semanticUsed
  /\ sem.classification.suggestedMode # ModeOf(sem.classification.riskLevel)
  /\ sem.result.suggestedMode # sem.classification.suggestedMode

\* Some entry of the list occurs in the text, whatever the case of the text.
occursIgnoringCase(list, text) ==
  anyKeyword([n \in 1..Len(list) |-> toLowerCase(list[n])], toLowerCase(text))

storedBy(r, role) ==
  UNION { { store[c][i] :
              i \in { j \in 1..Len(store[c]) :
                        store[c][j].turn = r /\ store[c][j].role = role } } :
          c \in DOMAIN store }

\* C2: in every execution of handleUserMessage whose mode is CRISIS,
\* LLMClient.generate is invoked zero times, the returned assistantMessage is
\* the fixed crisis safe message and the reported llmProvider is 'none'.
C2_CrisisNeverGenerates ==
  \A r \in Runs :
    (run[r].pc # "idle" /\ run[r].analysis.suggestedMode = "CRISIS") =>
      /\ calls[r].generate = 0
      /\ run[r].pc = "returned" =>
           /\ run[r].output.mode = "CRISIS"
           /\ run[r].output.assistantMessage = CRISIS_SAFE_MESSAGE
           /\ run[r].output.llmProvider = "none"

\* A CRISIS call has returned.
C2_Witness ==
  \E r \in Runs :
    /\ run[r].pc = "returned"
    /\ run[r].analysis.suggestedMode = "CRISIS"
    /\ run[r].output.llmProvider = "none"
    /\ calls[r].generate = 0

\* The text matches a pattern of one of the three unsafe families.
matchesUnsafeFamily(text) ==
  anyKeyword(DIAGNOSIS_PATTERNS \o MEDICATION_PATTERNS \o GUARANTEE_PATTERNS,
             toLowerCase(text))

\* C3: on the NORMAL and SUPPORTIVE paths a generated text that matches an
\* unsafe pattern family is reported unsafe, and then the returned
\* assistantMessage and the stored assistant message are the fixed safe
\* fallback of the mode; any other generated text is reported safe, and then
\* both are exactly the generated text.
C3_UnsafeTextIntercepted ==
  \A r \in Runs :
    (run[r].pc = "returned" /\ run[r].analysis.suggestedMode # "CRISIS") =>
      LET text == run[r].llmResponse.text
          fallback == IF run[r].output.mode = "SUPPORTIVE"
                      THEN SAFE_FALLBACK_SUPPORTIVE ELSE SAFE_FALLBACK_NORMAL
          expected == IF run[r].validation.isSafe THEN text ELSE fallback
      IN  /\ run[r].validation.isSafe = ~matchesUnsafeFamily(text)
          /\ run[r].output.assistantMessage = expected
          /\ { m.content : m \in storedBy(r, "assistant") } = { expected }

\* A SUPPORTIVE call whose generated text was replaced.
C3_Witness ==
  \E r \in Runs :
    /\ run[r].pc = "returned"
    /\ run[r].output.mode = "SUPPORTIVE"
    /\ ~run[r].validation.isSafe
    /\ run[r].output.assistantMessage = SAFE_FALLBACK_SUPPORTIVE
    /\ run[r].output.assistantMessage # run[r].llmResponse.text

\* C6: every turn runs the rule-based classification, then (when the
\* classifier is enabled and the rule-based result is not HIGH) the semantic
\* classification, then the merge, then the routing: a call that is past the
\* routing has invoked the semantic classifier.
C6_SemanticBeforeRouting ==
  \A r \in Runs :
    ( /\ run[r].pc \notin {"idle", "await_analyze"}
      /\ getSemanticEnabled(env)
      /\ run[r].analysis.riskLevel # "HIGH" ) =>
      calls[r].classify >= 1

\* The position of a call in the order of completion.
completedAt(r) == CHOOSE n \in 1..Len(completed) : completed[n] = r

\* C9: appends are serialized per conversation. In the stored transcript the
\* user message of each completed call is immediately followed by the
\* assistant reply of that call, and the pairs are in the order in which the
\* calls completed.
C9_AppendsSerialized ==
  \A c \in DOMAIN store :
    LET h == store[c]
        done(i) == run[h[i].turn].pc = "returned"
    IN  /\ \A i \in 1..Len(h) :
             (h[i].role = "user" /\ done(i)) =>
               /\ i < Len(h)
               /\ h[i + 1].role = "assistant"
               /\ h[i + 1].turn = h[i].turn
        /\ \A i, j \in 1..Len(h) :
             (i < j /\ h[i].role = "user" /\ h[j].role = "user" /\ done(i) /\ done(j)) =>
               completedAt(h[i].turn) < completedAt(h[j].turn)

\* C10: when the generation call fails on a NORMAL or SUPPORTIVE turn,
\* handleUserMessage fails with that error: it returns no reply, the
\* validator is not run and the call appends nothing to the history.
C10_GenerationFailurePropagates ==
  \A r \in Runs :
    /\ (run[r].error # "" /\ run[r].pc # "await_generate") =>
         /\ run[r].pc = "threw"
         /\ run[r].error \in RequestErrors \cup {API_KEY_ERROR}
         /\ run[r].output = Unset
         /\ run[r].validation = Unset
         /\ storedBy(r, "user") = {}
         /\ storedBy(r, "assistant") = {}
    /\ run[r].pc = "threw" => run[r].error # ""

\* The request of a call failed, and the call threw, while another call on
\* the same conversation has its messages in the store.
C10_Witness ==
  \E r, q \in Runs :
    /\ run[r].pc = "threw"
    /\ run[r].error \in RequestErrors
    /\ run[q].pc = "returned"
    /\ run[q].conversationId = run[r].conversationId
    /\ storedBy(q, "user") # {}

(***************************************************************************)
(* Claims C11 to C20.                                                      *)
(***************************************************************************)
hasFlag(flags, flag) == \E n \in 1..Len(flags) : flags[n] = flag

\* The five fields of the rule-based result are those of the result, and
\* the result says the classifier was not used.
ruleBasedUnchanged(ruleAnalysis, result) ==
  /\ result.intent = ruleAnalysis.intent
  /\ result.riskLevel = ruleAnalysis.riskLevel
  /\ result.safetyFlags = ruleAnalysis.safetyFlags
  /\ result.suggestedMode = ruleAnalysis.suggestedMode
  /\ result.modeReason = ruleAnalysis.modeReason
  /\ result.semanticUsed = FALSE

\* The call of analyzeWithSemantic has left the await of analyze for
\* classify.
SemInClassify == sem.pc \in {"classify_entry", "await_race", "await_classify"}

\* C11: when analyze returns risk HIGH or mode CRISIS, analyzeWithSemantic
\* never calls classify, no generation call is made, and the result is the
\* rule-based one (intent, riskLevel, safetyFlags, suggestedMode, modeReason)
\* with semanticUsed false.
C11_MaximalSkipsSemantic ==
  (/\ sem.entry = "analyzeWithSemantic"
   /\ sem.pc # "idle"
   /\ \/ sem.ruleAnalysis.riskLevel = "HIGH"
      \/ sem.ruleAnalysis.suggestedMode = "CRISIS") =>
    /\ ~SemInClassify
    /\ sem.generateCalls = 0
    /\ sem.llm = "none"
    /\ sem.timer = "none"
    /\ sem.pc = "returned" => ruleBasedUnchanged(sem.ruleAnalysis, sem.result)

\* analyzeWithSemantic returned a maximal rule-based result with the
\* classifier enabled and a provider that would have answered.
C11_Witness ==
  /\ SemReturned
  /\ sem.ruleAnalysis.riskLevel = "HIGH"
  /\ getSemanticEnabled(env)
  /\ ~ensureInitializedThrows(env)

\* C12: with the classifier disabled, analyzeWithSemantic never calls
\* classify, makes no generation call, and returns the rule-based result
\* with semanticUsed false; SEMANTIC_DISABLED is in the flags of a returned
\* result only when classify was called directly, and the final risk is the
\* rule-based one.
C12_DisabledSkipsSemantic ==
  /\ (/\ sem.entry = "analyzeWithSemantic"
      /\ sem.pc # "idle"
      /\ ~getSemanticEnabled(env)) =>
       /\ ~SemInClassify
       /\ sem.generateCalls = 0
       /\ sem.pc = "returned" =>
            /\ ruleBasedUnchanged(sem.ruleAnalysis, sem.result)
            /\ sem.result.riskLevel = analyze(sem.text).riskLevel
  /\ (sem.pc = "returned" /\ hasFlag(sem.result.safetyFlags, "SEMANTIC_DISABLED")) =>
       /\ sem.entry = "classify"
       /\ ~getSemanticEnabled(env)

\* With the classifier disabled, analyzeWithSemantic returned a result
\* that is not maximal: step 3 decided.
C12_Witness ==
  /\ SemReturned
  /\ ~getSemanticEnabled(env)
  /\ sem.ruleAnalysis.riskLevel = "LOW"

\* The configured soft signals that match the text, as a set.
matchingSignals(lowerText) ==
  { n \in 1..Len(SOFT_CRISIS_SIGNALS) : signalMatches(SOFT_CRISIS_SIGNALS[n], lowerText) }

\* The sum of the weights of a set of signals, in no particular order.
RECURSIVE totalWeight(_)
totalWeight(S) ==
  IF S = {} THEN 0
  ELSE LET n == CHOOSE k \in S : TRUE
       IN  SOFT_CRISIS_SIGNALS[n].weight + totalWeight(S \ {n})

\* C15: when the text has no explicit keyword and matches no regex pattern,
\* the soft-signal outcome of analyze is decided by the total weight of the
\* set of matching signals, each counted once: a total of 8 or more gives
\* HIGH, CRISIS and SOFT_SIGNALS_CRISIS_THRESHOLD, a total of 4 to 7 gives
\* MEDIUM, SUPPORTIVE and SOFT_SIGNALS_ELEVATED, a total below 4 gives
\* neither.
C15_SoftSignalOutcome ==
  sem.pc = "await_analyze" =>
    LET lower == toLowerCase(sem.text)
        total == totalWeight(matchingSignals(lower))
        a == sem.ruleAnalysis
    IN  (~anyKeyword(EXPLICIT_CRISIS_KEYWORDS, lower) /\ ~anyPattern(CRISIS_PATTERNS, lower)) =>
          /\ total >= 8 =>
               /\ a.riskLevel = "HIGH"
               /\ a.suggestedMode = "CRISIS"
               /\ a.modeReason = "SOFT_SIGNALS_CRISIS_THRESHOLD"
          /\ (total >= 4 /\ total <= 7) =>
               /\ a.riskLevel = "MEDIUM"
               /\ a.suggestedMode = "SUPPORTIVE"
               /\ a.modeReason = "SOFT_SIGNALS_ELEVATED"
          /\ total < 4 =>
               a.modeReason \notin {"SOFT_SIGNALS_CRISIS_THRESHOLD", "SOFT_SIGNALS_ELEVATED"}

\* Two signals, neither of which reaches the supportive threshold alone,
\* reach it together.
C15_Witness ==
  /\ sem.pc = "await_analyze"
  /\ LET S == matchingSignals(toLowerCase(sem.text))
     IN  /\ Cardinality(S) = 2
         /\ \A n \in S : SOFT_CRISIS_SIGNALS[n].weight < 4
         /\ totalWeight(S) >= 4
  /\ sem.ruleAnalysis.modeReason = "SOFT_SIGNALS_ELEVATED"

\* The default result of analyze.
isDefaultAnalysis(a) ==
  /\ a.riskLevel = "LOW"
  /\ a.suggestedMode = "NORMAL"
  /\ a.modeReason = "DEFAULT"
  /\ a.safetyFlags = << >>
  /\ a.intent = "GENERAL"

\* C16 as stated: analyze returns the default result only when the text
\* matches nothing in any of the four layers, and whenever anything matches,
\* a soft signal of any weight included, the intent is MENTAL_HEALTH.
C16_AnyMatchIsMentalHealth ==
  sem.pc = "await_analyze" =>
    LET lower == toLowerCase(sem.text)
        anyMatch == \/ anyKeyword(EXPLICIT_CRISIS_KEYWORDS, lower)
                    \/ anyPattern(CRISIS_PATTERNS, lower)
                    \/ matchingSignals(lower) # {}
                    \/ anyKeyword(MENTAL_HEALTH_KEYWORDS, lower)
    IN  /\ isDefaultAnalysis(sem.ruleAnalysis) => ~anyMatch
        /\ anyMatch => sem.ruleAnalysis.intent = "MENTAL_HEALTH"

\* C16, amended: analyze returns the default result exactly when no layer
\* yields a result, that is when the text has no explicit keyword, matches
\* no regex pattern, has a soft-signal total below 4 and has no topical
\* keyword; in every other case the intent is MENTAL_HEALTH.
C16_DefaultWhenNoLayerDecides ==
  sem.pc = "await_analyze" =>
    LET lower == toLowerCase(sem.text)
        decided == \/ anyKeyword(EXPLICIT_CRISIS_KEYWORDS, lower)
                   \/ anyPattern(CRISIS_PATTERNS, lower)
                   \/ totalWeight(matchingSignals(lower)) >= 4
                   \/ anyKeyword(MENTAL_HEALTH_KEYWORDS, lower)
    IN  /\ isDefaultAnalysis(sem.ruleAnalysis) <=> ~decided
        /\ decided => sem.ruleAnalysis.intent = "MENTAL_HEALTH"

\* A text whose only match is a soft signal below the supportive threshold:
\* the result is the default one.
C16_Witness ==
  /\ sem.pc = "await_analyze"
  /\ LET lower == toLowerCase(sem.text)
     IN  /\ matchingSignals(lower) # {}
         /\ totalWeight(matchingSignals(lower)) < 4
         /\ ~anyKeyword(MENTAL_HEALTH_KEYWORDS, lower)
  /\ isDefaultAnalysis(sem.ruleAnalysis)

\* C18: in a merged result modeReason is LLM_SEMANTIC_ESCALATION exactly
\* when the semantic risk is above the rule-based risk, LLM_SEMANTIC_CONFIRM
\* exactly when the two are equal, and the rule-based modeReason exactly when
\* the semantic risk is below; the same holds when the semantic result is a
\* fallback.
C18_ModeReasonOfMerge ==
  (SemReturned /\ sem.result.semanticUsed) =>
    LET semantic == RankOf(sem.classification.riskLevel)
        rule == RankOf(sem.ruleAnalysis.riskLevel)
        reason == sem.result.modeReason
    IN  /\ reason = "LLM_SEMANTIC_ESCALATION" <=> semantic > rule
        /\ reason = "LLM_SEMANTIC_CONFIRM" <=> semantic = rule
        /\ semantic < rule <=> reason \notin {"LLM_SEMANTIC_ESCALATION", "LLM_SEMANTIC_CONFIRM"}
        /\ semantic < rule => reason = sem.ruleAnalysis.modeReason

\* A fallback of the classifier after a timeout was merged with a rule-based
\* MEDIUM: the reason is LLM_SEMANTIC_CONFIRM.
C18_Witness ==
  /\ SemReturned
  /\ sem.result.semanticUsed
  /\ sem.cause = "timer"
  /\ sem.ruleAnalysis.riskLevel = "MEDIUM"
  /\ sem.result.modeReason = "LLM_SEMANTIC_CONFIRM"

\* classify has its classification, after a race.
SemClassified(s) == s.pc \in {"await_classify", "returned"} /\ s.generateCalls > 0

\* C19: the first of the generation call and the timer to settle decides the
\* race. When the timer is first, classify returns the fallback flagged
\* SEMANTIC_TIMEOUT, and it returns that flag in no other case. A settlement
\* of the loser after the race is decided changes neither the outcome of the
\* race nor the classification nor the result already returned, and the call
\* stays returned.
C19_FirstSettlementDecides ==
  [][ /\ SemClassified(sem') =>
           /\ sem'.cause = "timer" =>
                /\ sem'.classification.riskLevel = "MEDIUM"
                /\ sem'.classification.intent = "UNKNOWN"
                /\ sem'.classification.suggestedMode = "SUPPORTIVE"
                /\ sem'.classification.safetyFlags = << "SEMANTIC_TIMEOUT" >>
           /\ hasFlag(sem'.classification.safetyFlags, "SEMANTIC_TIMEOUT") =>
                sem'.cause = "timer"
      /\ sem.race \in {"fulfilled", "rejected"} =>
           /\ sem'.race = sem.race
           /\ sem'.raceValue = sem.raceValue
           /\ sem'.cause = sem.cause
      /\ SemClassified(sem) => sem'.classification = sem.classification
      /\ (sem.pc = "returned" /\ sem.generateCalls > 0) =>
           /\ sem'.pc = "returned"
           /\ sem'.result = sem.result
    ]_vars

\* The timer won the race, classify returned the fallback, and the response
\* arrived afterwards.
C19_Witness ==
  /\ sem.pc = "returned"
  /\ sem.cause = "timer"
  /\ sem.llm = "fulfilled"
  /\ hasFlag(sem.result.safetyFlags, "SEMANTIC_TIMEOUT")

\* C20: every call of classify ends with a classification, and every call
\* of analyzeWithSemantic returns, provided the timer fires when due, even
\* if the generation request never settles.
C20_ClassifyTerminates == (sem.pc # "idle") ~> (sem.pc = "returned")

\* analyzeWithSemantic has returned while the generation request is still
\* unanswered.
C20_Witness ==
  /\ SemReturned
  /\ sem.result.semanticUsed
  /\ sem.llm = "pending"
  /\ sem.timer = "fired"

(***************************************************************************)
(* Properties of ResponseValidator.validate, under SpecValidator.          *)
(***************************************************************************)
\* C13: validate checks the families in the order diagnosis, medication,
\* guarantee and stops at the first that matches: an unsafe result carries
\* exactly one flag, that of the earliest matching family, and its
\* sanitizedText is the non-empty fixed fallback of the mode, a different
\* text for each of NORMAL, SUPPORTIVE and CRISIS.
C13_FirstFamilyDecides ==
  val.pc # "idle" =>
    LET lower == toLowerCase(val.assistantText)
        d == anyKeyword(DIAGNOSIS_PATTERNS, lower)
        m == anyKeyword(MEDICATION_PATTERNS, lower)
        g == anyKeyword(GUARANTEE_PATTERNS, lower)
        v == val.first
    IN  /\ v.isSafe = ~(d \/ m \/ g)
        /\ v.safetyFlags = IF d THEN << "DIAGNOSIS_DETECTED" >>
                           ELSE IF m THEN << "MEDICATION_ADVICE_DETECTED" >>
                           ELSE IF g THEN << "ABSOLUTE_GUARANTEE_DETECTED" >>
                           ELSE << >>
        /\ ~v.isSafe =>
             /\ v.sanitizedText # ""
             /\ v.sanitizedText = CASE val.mode = "NORMAL" -> SAFE_FALLBACK_NORMAL
                                    [] val.mode = "SUPPORTIVE" -> SAFE_FALLBACK_SUPPORTIVE
                                    [] val.mode = "CRISIS" -> SAFE_FALLBACK_CRISIS
             /\ \A other \in Modes \ {val.mode} :
                  sanitizedTextFor(other) # v.sanitizedText

\* A CRISIS text with a guarantee before a diagnosis: flagged as a diagnosis
\* only.
C13_Witness ==
  /\ val.pc # "idle"
  /\ val.mode = "CRISIS"
  /\ anyKeyword(DIAGNOSIS_PATTERNS, toLowerCase(val.assistantText))
  /\ anyKeyword(GUARANTEE_PATTERNS, toLowerCase(val.assistantText))
  /\ val.first.safetyFlags = << "DIAGNOSIS_DETECTED" >>
  /\ val.first.sanitizedText = SAFE_FALLBACK_CRISIS

\* C14: a text that validate accepts is accepted again, with no flags, and
\* is the text used; the fallback that replaces a rejected text is itself
\* accepted, in each mode.
C14_SafeTextStaysSafe ==
  /\ val.pc # "idle" => (val.first.isSafe => val.text = val.assistantText)
  /\ val.pc = "revalidated" =>
       /\ val.second.isSafe
       /\ val.second.safetyFlags = << >>
       /\ chooseAssistantMessage(val.second, val.text) = val.text

\* A SUPPORTIVE text was rejected and its fallback validated.
C14_Witness ==
  /\ val.pc = "revalidated"
  /\ val.mode = "SUPPORTIVE"
  /\ ~val.first.isSafe
  /\ val.text = SAFE_FALLBACK_SUPPORTIVE
  /\ val.second.isSafe

(***************************************************************************)
(* Properties of ConversationStore, under SpecStore.                       *)
(***************************************************************************)
\* C17: for every conversation and every limit, 0 and limits above the
\* stored length included, getRecent returns at most limit messages: the
\* most recently appended ones of the conversation, in the order appended.
C17_GetRecentAtMostLimit ==
  recent.pc = "returned" =>
    LET appended == log[recent.conversationId]
        held == Len(storeGet(store, recent.conversationId))
        k == Len(recent.result)
    IN  /\ k <= recent.limit
        /\ k = IF held <= recent.limit THEN held ELSE recent.limit
        /\ recent.result = SubSeq(appended, Len(appended) - k + 1, Len(appended))

(***************************************************************************)
(* Claims C21 to C27.                                                      *)
(***************************************************************************)
\* The response text is JSON once its fences are stripped, and its
\* riskLevel, intent and suggestedMode are inside their enumerations.
responseAcceptable(text) ==
  \E cleaned \in { stripFences(text) } :
    /\ IsJson(cleaned)
    /\ \E parsed \in { JSON_parse(cleaned) } :
         /\ "isNull" \notin DOMAIN parsed
         /\ field(parsed, "riskLevel") \in {"LOW", "MEDIUM", "HIGH"}
         /\ field(parsed, "intent") \in {"MENTAL_HEALTH", "GENERAL", "UNKNOWN"}
         /\ field(parsed, "suggestedMode") \in {"NORMAL", "SUPPORTIVE", "CRISIS"}

\* C21: a response of the generation call is accepted only if its text is
\* JSON once the fences are stripped and riskLevel, intent and suggestedMode
\* are all inside their enumerations; then the classification has these
\* three fields. Otherwise classify returns the whole fallback flagged
\* SEMANTIC_PARSE_FAIL, with no field of the response.
C21_InvalidResponseIsWholeFallback ==
  (SemClassified(sem) /\ sem.cause = "response") =>
    IF responseAcceptable(sem.raceValue)
    THEN LET parsed == JSON_parse(stripFences(sem.raceValue))
         IN  /\ sem.classification.riskLevel = parsed.riskLevel
             /\ sem.classification.intent = parsed.intent
             /\ sem.classification.suggestedMode = parsed.suggestedMode
             /\ ~hasFlag(sem.classification.safetyFlags, "SEMANTIC_PARSE_FAIL")
    ELSE sem.classification =
           [riskLevel |-> "MEDIUM", intent |-> "UNKNOWN",
            suggestedMode |-> "SUPPORTIVE",
            safetyFlags |-> << "SEMANTIC_PARSE_FAIL" >>,
            rationale |-> "Fallback classification due to processing error"]

\* A JSON response with riskLevel HIGH and mode CRISIS but an intent outside
\* the enumeration: the classification is the fallback.
C21_Witness ==
  /\ SemClassified(sem)
  /\ sem.cause = "response"
  /\ IsJson(stripFences(sem.raceValue))
  /\ field(JSON_parse(stripFences(sem.raceValue)), "riskLevel") = "HIGH"
  /\ field(JSON_parse(stripFences(sem.raceValue)), "intent") \notin Intents
  /\ sem.classification.riskLevel = "MEDIUM"
  /\ sem.classification.safetyFlags = << "SEMANTIC_PARSE_FAIL" >>

\* Every flag analyze can return: the three names of its layers and the
\* patterns of the soft signals.
RuleBasedFlags ==
  {"CRISIS_KEYWORD_MATCH", "CRISIS_PATTERN_MATCH", "SOFT_SIGNALS_ELEVATED"}
    \cup { SOFT_CRISIS_SIGNALS[n].pattern : n \in 1..Len(SOFT_CRISIS_SIGNALS) }

\* classify has returned a classification made from an accepted response.
SemSucceeded ==
  /\ SemClassified(sem)
  /\ sem.cause = "response"
  /\ responseAcceptable(sem.raceValue)

\* C22 as stated: on every successful classification, whatever its
\* riskLevel, the flags of classify are the flags of the response followed
\* by one more flag, which is not a rule-based flag.
C22_EveryTierIsFlagged ==
  SemSucceeded =>
    LET given == parseClassificationResponse(sem.raceValue).value.safetyFlags
        flags == sem.classification.safetyFlags
    IN  /\ Len(flags) = Len(given) + 1
        /\ SubSeq(flags, 1, Len(given)) = given
        /\ flags[Len(flags)] \notin RuleBasedFlags

\* C22, amended: on a successful classification of riskLevel HIGH or MEDIUM
\* classify appends one flag to those of the response, LLM_SEMANTIC_HIGH_RISK
\* or LLM_SEMANTIC_MEDIUM_RISK, neither of which is a rule-based flag; on a
\* successful classification of riskLevel LOW it appends nothing.
C22_TierFlagForMediumAndHigh ==
  /\ {"LLM_SEMANTIC_HIGH_RISK", "LLM_SEMANTIC_MEDIUM_RISK"} \cap RuleBasedFlags = {}
  /\ SemSucceeded =>
       LET given == parseClassificationResponse(sem.raceValue).value.safetyFlags
           risk == sem.classification.riskLevel
       IN  sem.classification.safetyFlags =
             IF risk = "HIGH" THEN Append(given, "LLM_SEMANTIC_HIGH_RISK")
             ELSE IF risk = "MEDIUM" THEN Append(given, "LLM_SEMANTIC_MEDIUM_RISK")
             ELSE given

\* A successful classification of riskLevel LOW: no flag was appended.
C22_Witness ==
  /\ SemSucceeded
  /\ sem.classification.riskLevel = "LOW"
  /\ sem.classification.safetyFlags = << >>

\* The elements of a sequence, and the place of the first occurrence of one.
flagSet(flags) == { flags[n] : n \in 1..Len(flags) }
firstOccurrence(flags, flag) ==
  CHOOSE n \in 1..Len(flags) :
    flags[n] = flag /\ \A m \in 1..(n - 1) : flags[m] # flag

\* C23: in a merged result safetyFlags holds every flag of the rule-based
\* result and of the classification, each exactly once, and nothing else, in
\* the order of first occurrence with the rule-based flags first.
C23_FlagsAreOrderedUnion ==
  (SemReturned /\ sem.result.semanticUsed) =>
    LET both == sem.ruleAnalysis.safetyFlags \o sem.classification.safetyFlags
        flags == sem.result.safetyFlags
    IN  /\ flagSet(flags) = flagSet(sem.ruleAnalysis.safetyFlags)
                              \cup flagSet(sem.classification.safetyFlags)
        /\ \A i, j \in 1..Len(flags) : i < j => flags[i] # flags[j]
        /\ \A i, j \in 1..Len(flags) :
             i < j => firstOccurrence(both, flags[i]) < firstOccurrence(both, flags[j])

\* A merge in which a rule-based flag is also a flag of the classification.
C23_Witness ==
  /\ SemReturned
  /\ sem.result.semanticUsed
  /\ flagSet(sem.ruleAnalysis.safetyFlags) \cap flagSet(sem.classification.safetyFlags) # {}
  /\ Len(sem.result.safetyFlags)
       < Len(sem.ruleAnalysis.safetyFlags) + Len(sem.classification.safetyFlags)

\* C24: in the handling of one message the semantic classification is
\* called at most once and the generation of the reply at most once,
\* whether the call succeeds, fails or has its text rejected by the
\* validator.
C24_NoRetries ==
  \A r \in Runs :
    /\ calls[r].generate <= 1
    /\ calls[r].classify <= 1
    /\ run[r].pc \in {"threw", "await_validate", "await_append_user",
                     "await_append_assistant"} => calls[r].generate = 1

\* A call whose request failed has ended with one generation call, and a
\* call whose text was rejected by the validator has returned with one.
C24_Witness ==
  \E r, q \in Runs :
    /\ run[r].pc = "threw"
    /\ run[r].error \in RequestErrors
    /\ calls[r].generate = 1
    /\ run[q].pc = "returned"
    /\ ~isCrisisPath(run[q].analysis.suggestedMode)
    /\ ~run[q].validation.isSafe
    /\ calls[q].generate = 1

\* C25: once classify has returned, nothing of the race is still pending:
\* the timer is no longer armed, in particular when the generation call
\* settled first, and the generation request is no longer open.
C25_RaceLeavesNothingPending ==
  SemClassified(sem) =>
    /\ sem.timer # "armed"
    /\ sem.llm # "pending"

\* The places in a conversation of the messages a call has appended.
appendedAt(r, conversationId) ==
  { i \in 1..Len(storeGet(store, conversationId)) :
      storeGet(store, conversationId)[i].turn = r }

\* C26: a call of handleUserMessage that has returned, on the CRISIS path
\* as on the other one, has appended exactly two messages to its
\* conversation: the user message with the input text, then an assistant
\* message with the returned assistantMessage. It has appended nothing to
\* another conversation, and the history it read for the prompt does not
\* hold its own user message.
C26_TwoMessagesAppended ==
  \A r \in Runs :
    /\ run[r].pc = "returned" =>
         LET c == run[r].conversationId
             h == storeGet(store, c)
         IN  /\ Cardinality(appendedAt(r, c)) = 2
             /\ \E i, j \in appendedAt(r, c) :
                  /\ i < j
                  /\ h[i].role = "user"
                  /\ h[i].content = run[r].userMessage
                  /\ h[j].role = "assistant"
                  /\ h[j].content = run[r].output.assistantMessage
             /\ \A d \in ConversationIds \ {c} : appendedAt(r, d) = {}
    /\ \A n \in 1..Len(run[r].recentMessages) : run[r].recentMessages[n].turn # r

\* A CRISIS call and a call with a generated reply have both returned on
\* the same conversation, and the second read the messages of the first.
C26_Witness ==
  \E r, q \in Runs :
    /\ run[r].pc = "returned"
    /\ run[q].pc = "returned"
    /\ run[r].conversationId = run[q].conversationId
    /\ isCrisisPath(run[r].analysis.suggestedMode)
    /\ ~isCrisisPath(run[q].analysis.suggestedMode)
    /\ Len(run[q].recentMessages) = 2

\* The last messages of a sequence, 30 of them at most, in their order.
lastUpTo30(appended) ==
  SubSeq(appended, IF Len(appended) > 30 THEN Len(appended) - 29 ELSE 1,
         Len(appended))

\* C27: after every append, getRecent and clear, each conversation of the
\* store holds at most 30 messages, and they are the last (up to 30)
\* messages appended to it since its last clear, in the order appended; an
\* append to one conversation leaves every other conversation as it was.
C27_StoreHoldsLast30 ==
  [][ \A c \in ConversationIds :
        /\ Len(storeGet(store', c)) <= 30
        /\ storeGet(store', c) = lastUpTo30(log'[c])
        /\ Len(log'[c]) = Len(log[c]) + 1 =>
             \A d \in ConversationIds \ {c} :
               /\ (d \in DOMAIN store') = (d \in DOMAIN store)
               /\ storeGet(store', d) = storeGet(store, d) ]_vars

\* A conversation has had 31 appends since its last clear and holds the
\* last 30 of them, while the other conversation holds messages too.
C27_Witness ==
  \E c, d \in ConversationIds :
    /\ c # d
    /\ Len(log[c]) = 31
    /\ Len(storeGet(store, c)) = 30
    /\ storeGet(store, c)[1].turn = 2
    /\ Len(storeGet(store, d)) > 0

=============================================================================
